---------------------------- MODULE Spec2Model ----------------------------
(***************************************************************************)
(* Verification model of watchtower: the ingestion coordinator             *)
(* (cmd/ingester/main.go), the catalog writer (PostgresRepository          *)
(* .SaveBatch), the resilient LLM client (circuit breaker + retry) and the *)
(* triage guardrails (pre-filter, post-filter, LLMTriager.Triage).         *)
(***************************************************************************)
EXTENDS Integers, Sequences, FiniteSets, TLC

(***************************************************************************)
(* Bounds of the model.  The program's channel capacity and batch size are *)
(* both 2000 (main.go:88, main.go:123); the model keeps their roles with   *)
(* small stand-ins so that "channel full" and "buffer full" both happen.   *)
(***************************************************************************)
MaxFetch == 2
ChanCap == 1
BatchSize == 2

\* The feeds started by main: one producer goroutine each.
Providers == {1, 2}

(***************************************************************************)
(* domain.IOC, reduced to the fields the catalog key and the conflict rule *)
(* read: value, source, version, and one non-key field (threat_type)       *)
(* standing for all the columns that are not part of the key.              *)
(***************************************************************************)
IOC(v, s, ver, tt) == [value |-> v, source |-> s, version |-> ver, threat_type |-> tt]

Key(ioc) == <<ioc.value, ioc.source, ioc.version>>

\* What provider p's feed holds; a fetch returns a prefix of it.
\* Feeds name themselves as source (here the provider's number); source 0 is
\* a source name two feeds share, so both can return the very same record.
Feed(p) ==
    << IOC("a", p, "", "c2"), IOC("pkg", 0, "1", "malware"), IOC("a", p, "", "botnet") >>

VARIABLES
    \* ---- ingestion coordinator (cmd/ingester/main.go) ----
    ppc,        \* producer goroutine position: "fetch" | "send" | "done"
    fetched,    \* iocs returned by f.FetchIOCS
    fetchOk,    \* whether the fetch returned without error
    sidx,       \* index of the next ioc a producer sends
    iocChannel, \* buffered channel contents
    closed,     \* close(iocChannel) has run
    batch,      \* consumer's buffer
    mpc,        \* consumer position: "loop" | "final" | "exit"
    ctxDone,    \* the 10 minute deadline has fired
    saveCalls,  \* every batch handed to repo.SaveBatch, in call order
    saveErrs,   \* the error result of each of those calls
    totalSaved,
    \* ---- catalog (table iocs) ----
    catalog,    \* committed rows in insertion order
    \* ---- concurrent callers of PostgresRepository.SaveBatch ----
    wpc,        \* "idle" | "exec"
    wbatch,     \* the iocs queued by the call in progress
    widx,       \* the next queued statement the server runs
    wpending,   \* rows the call's transaction has inserted, not yet committed
    wfailedAt,  \* last call: index of the statement that failed, 0 if none
    wret,       \* last call's return value: "none" | "ok" | "err"
    \* ---- resilient client: gobreaker state and the callers of Do ----
    cbState,    \* "closed" | "open" | "half-open"
    cbCounts,   \* gobreaker.Counts: Requests, ConsecutiveSuccesses, ConsecutiveFailures
    cbElapsed,  \* clock ticks since the breaker opened (expiry = opening + Timeout)
    cpc,        \* caller position: "idle" | "attempt" (HTTP exchange open) | "backoff"
    cgenOk,     \* the call's generation is still the breaker's generation
    cadmit,     \* breaker state in which the call in progress was admitted
    attempts,   \* HTTP attempts made by the caller's current (or last) call
    lastErr,    \* result of the caller's last Do: "none" | "ok" | "failed" | "circuit_open" | "ErrTooManyRequests"
    \* ---- LLMTriager.Triage ----
    tenabled,   \* t.enabled, fixed when the triager is constructed
    tpc,        \* "idle" | "received" | "returned"
    threat,     \* the ThreatContext handed to Triage
    llmCalled,  \* Triage sent a request to the LLM endpoint
    tres,       \* what Triage returned: [err |-> ..., result |-> ...]
    \* ---- ResilientClient.doWithRetry, one call ----
    rpc,        \* "idle" | "attempt" (inside c.client.Do) | "backoff" | "returned"
    rmax,       \* c.config.MaxRetries of the client
    rctx,       \* req.Context(): "live" | "canceled" | "deadline"
    rbody,      \* what is left to read of req.Body
    rsent,      \* the body handed to c.client.Do, attempt by attempt
    rwire,      \* requests the transport put on the wire
    routs,      \* outcome of c.client.Do, attempt by attempt
    rret,       \* what doWithRetry returned: "none" | "ok" | "err"
    \* ---- RestHandler.SentinelOneWebhook, one request at a time ----
    hnotifier,  \* h.slackNotifier != nil
    htriager,   \* h.llmTriager != nil
    hpc,        \* "idle" | "enrich" | "triage" | "notify" | "done"
    hbody,      \* the request body
    hidx,       \* index of the next payload.Indicators element of the loop
    hlookups,   \* how the catalog answered, indicator by indicator
    henriched,  \* enrichedIndicators
    hiocs,      \* iocs, the rows found, for each enriched indicator
    hseen,      \* FirstSeen of each enriched indicator
    htriage,    \* what the Triage call gave: [called, err, result]
    hnotify,    \* calls made to the notifier
    hresp,      \* the response written
    \* ---- ApplyPostLLMGuardrails called on its own, as its tests call it ----
    gpc,        \* "idle" | "done"
    gth,        \* the ThreatContext given
    gstages,    \* the result after each statement of the function
    gparsed,    \* the result as parseResponse handed it over
    \* ---- CheckIOC: GET /api/v1/iocs/check and the gRPC method ----
    kpc,        \* "idle" | "query" (inside FindByValue) | "done"
    kvia,       \* "rest" | "grpc"
    kvalue,     \* the value asked for
    kfind,      \* what FindByValue returned: "none" | "row" | "no-rows" | "failure"
    kresp,      \* the answer: [status, exists]
    \* ---- SearchIOC: GET /api/v1/iocs/search and the gRPC method ----
    qpc,        \* "idle" | "query" (inside the repository) | "done"
    qvia,       \* "rest" | "grpc"
    qvalue,     \* the value asked for, character by character
    qresp,      \* the answer: [status, iocs, count]
    \* ---- the REST router and authMiddleware ----
    apc,        \* "idle" | "routed" | "done"
    asecret,    \* REST_API_AUTH_TOKEN; "" when not set
    areq,       \* the request: [path, method, auth]
    aran,       \* the handler that ran, "none" if none did
    astatus,    \* the status written by the router or the middleware, 0 if neither wrote
    \* ---- one ingestion run of URL feeds: providers, batches, SaveBatch ----
    xfetched,   \* the providers whose FetchIOCS has returned
    xqueue,     \* iocs fetched and not yet handed to SaveBatch, in channel order
    xpc,        \* "run" | "done"
    \* ---- CEF export of one row (CEFExporter.formatCEF) ----
    epc,        \* "idle" | "done"
    eentry,     \* the CEFEntry being formatted
    eline,      \* the CEF line, character by character
    \* ---- one SaveBatch call of the coordinator under the deadline context ----
    ipc,        \* "idle" | "sent" (SendBatch issued, br.Exec reading) | "returned"
    ibatch,     \* the batch handed to SaveBatch
    ifired,     \* when the deadline fired: "no" | "before" the call | "during" it
    iret        \* what SaveBatch returned: "none" | "ok" | "exec error" | "context canceled"

ingestVars == << ppc, fetched, fetchOk, sidx, iocChannel, closed, batch, mpc,
                 ctxDone, saveCalls, saveErrs, totalSaved >>

writerVars == << wpc, wbatch, widx, wpending, wfailedAt, wret >>

breakerVars == << cbState, cbCounts, cbElapsed, cpc, cgenOk, cadmit, attempts, lastErr >>

triageVars == << tenabled, tpc, threat, llmCalled, tres >>

retryVars == << rpc, rmax, rctx, rbody, rsent, rwire, routs, rret >>

hookVars == << hnotifier, htriager, hpc, hbody, hidx, hlookups, henriched, hiocs, hseen, htriage,
               hnotify, hresp >>

guardVars == << gpc, gth, gstages, gparsed >>

checkVars == << kpc, kvia, kvalue, kfind, kresp >>

searchVars == << qpc, qvia, qvalue, qresp >>

authVars == << apc, asecret, areq, aran, astatus >>

extractVars == << xfetched, xqueue, xpc >>

cefVars == << epc, eentry, eline >>

inflightVars == << ipc, ibatch, ifired, iret >>

notIngest == << writerVars, breakerVars, triageVars, retryVars, hookVars, guardVars, checkVars, searchVars, authVars, extractVars, cefVars, inflightVars >>

notRepo == << ingestVars, breakerVars, triageVars, retryVars, hookVars, guardVars, checkVars, searchVars, authVars, extractVars, cefVars, inflightVars >>

notBreaker == << ingestVars, catalog, writerVars, triageVars, retryVars, hookVars, guardVars, checkVars, searchVars, authVars, extractVars, cefVars, inflightVars >>

notTriage == << ingestVars, catalog, writerVars, breakerVars, retryVars, hookVars, guardVars, checkVars, searchVars, authVars, extractVars, cefVars, inflightVars >>

notRetry == << ingestVars, catalog, writerVars, breakerVars, triageVars, hookVars, guardVars, checkVars, searchVars, authVars, extractVars, cefVars, inflightVars >>

notHook == << ingestVars, catalog, writerVars, breakerVars, triageVars, retryVars, guardVars, checkVars, searchVars, authVars, extractVars, cefVars, inflightVars >>

notGuard == << ingestVars, catalog, writerVars, breakerVars, triageVars, retryVars,
               hookVars, checkVars, searchVars, authVars, extractVars, cefVars, inflightVars >>

notCheck == << ingestVars, catalog, writerVars, breakerVars, triageVars, retryVars,
               hookVars, guardVars, searchVars, authVars, extractVars, cefVars, inflightVars >>

notSearch == << ingestVars, catalog, writerVars, breakerVars, triageVars, retryVars,
                hookVars, guardVars, checkVars, authVars, extractVars, cefVars, inflightVars >>

notAuth == << ingestVars, catalog, writerVars, breakerVars, triageVars, retryVars,
              hookVars, guardVars, checkVars, searchVars, extractVars, cefVars, inflightVars >>

notExtract == << ingestVars, writerVars, breakerVars, triageVars, retryVars,
                 hookVars, guardVars, checkVars, searchVars, authVars, cefVars, inflightVars >>

notCef == << ingestVars, catalog, writerVars, breakerVars, triageVars, retryVars,
             hookVars, guardVars, checkVars, searchVars, authVars, extractVars, inflightVars >>

notInflight == << ingestVars, writerVars, breakerVars, triageVars, retryVars,
                  hookVars, guardVars, checkVars, searchVars, authVars, extractVars,
                  cefVars >>

(***************************************************************************)
(* INSERT ... ON CONFLICT (value, source, version) DO NOTHING, one row.    *)
(***************************************************************************)
KeyIn(rows, ioc) == \E i \in 1..Len(rows) : Key(rows[i]) = Key(ioc)

InsertUpdating(rows, ioc) ==
    IF KeyIn(rows, ioc)
    THEN [i \in 1..Len(rows) |-> IF Key(rows[i]) = Key(ioc) THEN ioc ELSE rows[i]]
    ELSE Append(rows, ioc)

InsertAlways(rows, ioc) == Append(rows, ioc)

InsertRow(rows, ioc) == IF KeyIn(rows, ioc) THEN rows ELSE Append(rows, ioc)

RECURSIVE InsertAll(_, _)
InsertAll(rows, iocs) ==
    IF iocs = << >> THEN rows
    ELSE InsertAll(InsertRow(rows, Head(iocs)), Tail(iocs))

(***************************************************************************)
(* One whole SaveBatch call, run alone.  failAt = 0: every statement       *)
(* succeeds.  failAt = k > 0: statement k fails for a reason other than a  *)
(* key conflict; the statements of a pgx batch share one implicit          *)
(* transaction, so nothing of the batch is stored.  The call reads the     *)
(* result of the first statement only (one br.Exec()), and the deferred    *)
(* br.Close() drops its error.                                             *)
(***************************************************************************)
ExecErr(failAt) == failAt = 1

SaveBatchCall(rows, iocs, failAt) ==
    [ rows |-> IF failAt = 0 THEN InsertAll(rows, iocs) ELSE rows,
      err  |-> ExecErr(failAt) ]

(***************************************************************************)
(* The ingestion coordinator: main() of cmd/ingester.                      *)
(***************************************************************************)
IngestInit ==
    /\ ppc = [p \in Providers |-> "fetch"]
    /\ fetched = [p \in Providers |-> << >>]
    /\ fetchOk = [p \in Providers |-> FALSE]
    /\ sidx = [p \in Providers |-> 1]
    /\ iocChannel = << >>
    /\ closed = FALSE
    /\ batch = << >>
    /\ mpc = "loop"
    /\ ctxDone = FALSE
    /\ saveCalls = << >>
    /\ saveErrs = << >>
    /\ totalSaved = 0

\* context.WithTimeout(..., 10*time.Minute) expires.
Deadline ==
    /\ ~ctxDone
    /\ mpc # "exit"
    /\ ctxDone' = TRUE
    /\ UNCHANGED << ppc, fetched, fetchOk, sidx, iocChannel, closed, batch, mpc,
                    saveCalls, saveErrs, totalSaved, catalog >>
    /\ UNCHANGED notIngest

\* iocs, err := f.FetchIOCS(ctx): an error (logged, goroutine returns) or a
\* slice; an empty slice runs the send loop zero times.
Fetch(p) ==
    /\ ppc[p] = "fetch"
    /\ \/ /\ ppc' = [ppc EXCEPT ![p] = "done"]
          /\ UNCHANGED << fetched, fetchOk >>
       \/ \E n \in 0..MaxFetch :
             /\ fetched' = [fetched EXCEPT ![p] = SubSeq(Feed(p), 1, n)]
             /\ fetchOk' = [fetchOk EXCEPT ![p] = TRUE]
             /\ ppc' = [ppc EXCEPT ![p] = IF n = 0 THEN "done" ELSE "send"]
    /\ UNCHANGED << sidx, iocChannel, closed, batch, mpc, ctxDone,
                    saveCalls, saveErrs, totalSaved, catalog >>
    /\ UNCHANGED notIngest

\* select { case iocChannel <- ioc: ... } : the send case.
SendItem(p) ==
    /\ ppc[p] = "send"
    /\ Len(iocChannel) < ChanCap
    /\ iocChannel' = Append(iocChannel, fetched[p][sidx[p]])
    /\ sidx' = [sidx EXCEPT ![p] = @ + 1]
    /\ ppc' = [ppc EXCEPT ![p] = IF sidx[p] = Len(fetched[p]) THEN "done" ELSE "send"]
    /\ UNCHANGED << fetched, fetchOk, closed, batch, mpc, ctxDone,
                    saveCalls, saveErrs, totalSaved, catalog >>
    /\ UNCHANGED notIngest

\* select { ... case <-ctx.Done(): return } : the deadline case.
AbandonSend(p) ==
    /\ ppc[p] = "send"
    /\ ctxDone
    /\ ppc' = [ppc EXCEPT ![p] = "done"]
    /\ UNCHANGED << fetched, fetchOk, sidx, iocChannel, closed, batch, mpc,
                    ctxDone, saveCalls, saveErrs, totalSaved, catalog >>
    /\ UNCHANGED notIngest

CloseNever ==
    /\ FALSE
    /\ UNCHANGED << ppc, fetched, fetchOk, sidx, iocChannel, closed, batch, mpc,
                    ctxDone, saveCalls, saveErrs, totalSaved, catalog >>
    /\ UNCHANGED notIngest

ProducersDoneAny == \E p \in Providers : ppc[p] = "done"

ProducersDoneOk == \A p \in Providers : ppc[p] = "done" /\ fetchOk[p]

\* wg.Wait() returns: every producer goroutine has returned, each running its
\* deferred wg.Done() on the error path as on the others.
ProducersDone == \A p \in Providers : ppc[p] = "done"

\* go func() { wg.Wait(); close(iocChannel) }()
CloseChannel ==
    /\ ~closed
    /\ ProducersDone
    /\ closed' = TRUE
    /\ UNCHANGED << ppc, fetched, fetchOk, sidx, iocChannel, batch, mpc, ctxDone,
                    saveCalls, saveErrs, totalSaved, catalog >>
    /\ UNCHANGED notIngest

\* The outcomes repo.SaveBatch(ctx, b) can have: a call made after the
\* deadline fails at once; otherwise any statement may fail, or none.
SaveOutcomes(b) == IF ctxDone THEN {1} ELSE 0..Len(b)

\* if err := repo.SaveBatch(ctx, b); err != nil { log } else { totalSaved += len(b) }
DoSave(b, failAt) ==
    LET r == SaveBatchCall(catalog, b, failAt) IN
    /\ catalog' = r.rows
    /\ saveCalls' = Append(saveCalls, b)
    /\ saveErrs' = Append(saveErrs, r.err)
    /\ totalSaved' = IF r.err THEN totalSaved ELSE totalSaved + Len(b)

BatchKeptAfterFlush(b) == b

\* batch = nil
BatchAfterFlush(b) == << >>

\* case ioc, ok := <-iocChannel with ok: append, flush when the buffer is full.
Receive ==
    /\ mpc = "loop"
    /\ iocChannel # << >>
    /\ iocChannel' = Tail(iocChannel)
    /\ LET b == Append(batch, Head(iocChannel)) IN
         IF Len(b) >= BatchSize
         THEN /\ \E failAt \in SaveOutcomes(b) : DoSave(b, failAt)
              /\ batch' = BatchAfterFlush(b)
         ELSE /\ batch' = b
              /\ UNCHANGED << saveCalls, saveErrs, totalSaved, catalog >>
    /\ UNCHANGED << ppc, fetched, fetchOk, sidx, closed, mpc, ctxDone >>
    /\ UNCHANGED notIngest

\* case ioc, ok := <-iocChannel with !ok: break LoopPrincipal
ReceiveClosed ==
    /\ mpc = "loop"
    /\ iocChannel = << >>
    /\ closed
    /\ mpc' = "final"
    /\ UNCHANGED << ppc, fetched, fetchOk, sidx, iocChannel, closed, batch, ctxDone,
                    saveCalls, saveErrs, totalSaved, catalog >>
    /\ UNCHANGED notIngest

TickIdle ==
    /\ mpc = "loop"
    /\ UNCHANGED << ppc, fetched, fetchOk, sidx, iocChannel, closed, batch, mpc,
                    ctxDone, saveCalls, saveErrs, totalSaved, catalog >>
    /\ UNCHANGED notIngest

\* case <-ticker.C: flush a non-empty buffer.
Tick ==
    /\ mpc = "loop"
    /\ IF Len(batch) > 0
       THEN /\ \E failAt \in SaveOutcomes(batch) : DoSave(batch, failAt)
            /\ batch' = BatchAfterFlush(batch)
       ELSE UNCHANGED << batch, saveCalls, saveErrs, totalSaved, catalog >>
    /\ UNCHANGED << ppc, fetched, fetchOk, sidx, iocChannel, closed, mpc, ctxDone >>
    /\ UNCHANGED notIngest

\* After the loop: if len(batch) > 0 { SaveBatch }, then main returns.
FinalFlush ==
    /\ mpc = "final"
    /\ mpc' = "exit"
    /\ IF Len(batch) > 0
       THEN \E failAt \in SaveOutcomes(batch) : DoSave(batch, failAt)
       ELSE UNCHANGED << saveCalls, saveErrs, totalSaved, catalog >>
    /\ UNCHANGED << ppc, fetched, fetchOk, sidx, iocChannel, closed, batch, ctxDone >>
    /\ UNCHANGED notIngest

(***************************************************************************)
(* Concurrent SaveBatch calls, one statement of the batch at a time.       *)
(***************************************************************************)
MaxBatchLen == 2

Writers == {"w1", "w2"}

\* Records callers save: the first two share a key and differ in a non-key
\* column; the third differs from the first in version only.
RepoIOCs ==
    { IOC("a", 1, "", "c2"), IOC("a", 1, "", "botnet"), IOC("a", 1, "1", "c2") }

RECURSIVE SeqsUpTo(_, _)
SeqsUpTo(S, n) ==
    IF n = 0 THEN { << >> }
    ELSE LET shorter == SeqsUpTo(S, n - 1) IN
         shorter \cup { Append(q, x) : q \in shorter, x \in S }

\* The coordinator calls SaveBatch with a non-empty batch only.
Batches == SeqsUpTo(RepoIOCs, MaxBatchLen) \ { << >> }

WriterInit ==
    /\ wpc = [w \in Writers |-> "idle"]
    /\ wbatch = [w \in Writers |-> << >>]
    /\ widx = [w \in Writers |-> 1]
    /\ wpending = [w \in Writers |-> << >>]
    /\ wfailedAt = [w \in Writers |-> 0]
    /\ wret = [w \in Writers |-> "none"]

\* batch.Queue(query, ...) for each ioc; r.db.SendBatch(ctx, batch)
BeginSaveBatch(w) ==
    /\ wpc[w] = "idle"
    /\ \E b \in Batches : wbatch' = [wbatch EXCEPT ![w] = b]
    /\ wpc' = [wpc EXCEPT ![w] = "exec"]
    /\ widx' = [widx EXCEPT ![w] = 1]
    /\ wpending' = [wpending EXCEPT ![w] = << >>]
    /\ wfailedAt' = [wfailedAt EXCEPT ![w] = 0]
    /\ wret' = [wret EXCEPT ![w] = "none"]
    /\ UNCHANGED catalog
    /\ UNCHANGED notRepo

\* A queued statement fails (not a key conflict): the transaction rolls
\* back, and SaveBatch returns what its single br.Exec() read.
StatementFails(w) ==
    /\ wpc[w] = "exec"
    /\ wfailedAt' = [wfailedAt EXCEPT ![w] = widx[w]]
    /\ wpending' = [wpending EXCEPT ![w] = << >>]
    /\ wret' = [wret EXCEPT ![w] = IF ExecErr(widx[w]) THEN "err" ELSE "ok"]
    /\ wpc' = [wpc EXCEPT ![w] = "idle"]
    /\ wbatch' = [wbatch EXCEPT ![w] = << >>]
    /\ widx' = [widx EXCEPT ![w] = 1]
    /\ UNCHANGED catalog
    /\ UNCHANGED notRepo

\* A queued statement runs: the insert waits while another transaction
\* holds an uncommitted row with the same key; after the last statement the
\* transaction commits and SaveBatch returns nil.
StatementRuns(w) ==
    /\ wpc[w] = "exec"
    /\ LET ioc  == wbatch[w][widx[w]]
           seen == InsertRow(catalog \o wpending[w], ioc)
           mine == SubSeq(seen, Len(catalog) + 1, Len(seen))
       IN
       /\ \A o \in Writers \ {w} : ~KeyIn(wpending[o], ioc)
       /\ IF widx[w] = Len(wbatch[w])
          THEN /\ catalog' = catalog \o mine
               /\ wpending' = [wpending EXCEPT ![w] = << >>]
               /\ wret' = [wret EXCEPT ![w] = "ok"]
               /\ wpc' = [wpc EXCEPT ![w] = "idle"]
               /\ wbatch' = [wbatch EXCEPT ![w] = << >>]
               /\ widx' = [widx EXCEPT ![w] = 1]
          ELSE /\ wpending' = [wpending EXCEPT ![w] = mine]
               /\ widx' = [widx EXCEPT ![w] = @ + 1]
               /\ UNCHANGED << catalog, wret, wpc, wbatch >>
    /\ UNCHANGED wfailedAt
    /\ UNCHANGED notRepo

NextRepo ==
    \/ \E w \in Writers : BeginSaveBatch(w)
    \/ \E w \in Writers : StatementFails(w)
    \/ \E w \in Writers : StatementRuns(w)

(***************************************************************************)
(* The resilient client: ResilientClient.Do runs doWithRetry inside        *)
(* breaker.Execute.  The breaker is github.com/sony/gobreaker with the     *)
(* settings NewResilientClient gives it; its Execute is beforeRequest      *)
(* (under the breaker's mutex), the request, afterRequest (under the       *)
(* mutex).  A generation number, bumped at every state change, makes       *)
(* afterRequest ignore the outcome of a call admitted before the change;   *)
(* here each call carries cgenOk, cleared for all calls at every change.   *)
(***************************************************************************)
MaxRequestsTwo == 1 + 1

\* gobreaker.Settings.MaxRequests
MaxRequests == 1
MaxFailures == 5
MaxRetries == 3
TimeoutTicks == 2
CountCap == 3

Callers == {"c1", "c2"}

\* Counts that only grow while the breaker stays closed are kept up to CountCap.
Sat(n) == IF n > CountCap THEN CountCap ELSE n

ZeroCounts == [Requests |-> 0, ConsecutiveSuccesses |-> 0, ConsecutiveFailures |-> 0]

BreakerInit ==
    /\ cbState = "closed"
    /\ cbCounts = ZeroCounts
    /\ cbElapsed = 0
    /\ cpc = [c \in Callers |-> "idle"]
    /\ cgenOk = [c \in Callers |-> FALSE]
    /\ cadmit = [c \in Callers |-> "none"]
    /\ attempts = [c \in Callers |-> 0]
    /\ lastErr = [c \in Callers |-> "none"]

ReadyToTripLate(counts) == counts.ConsecutiveFailures > MaxFailures

\* ReadyToTrip: counts.ConsecutiveFailures >= config.MaxFailures
ReadyToTrip(counts) == counts.ConsecutiveFailures >= MaxFailures

\* cb.expiry.Before(now), expiry being the opening time plus Settings.Timeout
Expired == cbElapsed > TimeoutTicks

\* currentState(now): an open breaker whose timeout has passed is half-open.
CurrentState == IF cbState = "open" /\ Expired THEN "half-open" ELSE cbState

\* Counts as currentState leaves them: a state change starts a new generation.
CurrentCounts == IF CurrentState # cbState THEN ZeroCounts ELSE cbCounts

\* Time passes while the breaker is open.
ClockTick ==
    /\ cbState = "open"
    /\ ~Expired
    /\ cbElapsed' = cbElapsed + 1
    /\ UNCHANGED << cbState, cbCounts, cpc, cgenOk, cadmit, attempts, lastErr >>
    /\ UNCHANGED notBreaker

DoErrorRaw(err) == err

\* Do: errors.Is(err, gobreaker.ErrOpenState) becomes "circuit breaker is open: ...";
\* every other error is returned as it is.
DoError(err) == IF err = "ErrOpenState" THEN "circuit_open" ELSE err

\* beforeRequest's verdict in state st with counts cnt.
Rejection(st, cnt) ==
    IF st = "open" THEN "ErrOpenState"
    ELSE IF st = "half-open" /\ cnt.Requests >= MaxRequests THEN "ErrTooManyRequests"
    ELSE "admit"

\* Do(req) up to the first HTTP exchange: beforeRequest rejects the call, or
\* admits it and doWithRetry opens the first exchange.
Call(c) ==
    /\ cpc[c] = "idle"
    /\ LET st  == CurrentState
           cnt == CurrentCounts
           v   == Rejection(st, cnt)
       IN
       /\ cbState' = st
       /\ cbElapsed' = IF st = "open" THEN cbElapsed ELSE 0
       /\ IF v = "admit"
          THEN /\ cbCounts' = [cnt EXCEPT !.Requests = Sat(@ + 1)]
               /\ cpc' = [cpc EXCEPT ![c] = "attempt"]
               /\ cgenOk' = [o \in Callers |-> IF o = c THEN TRUE
                                               ELSE cgenOk[o] /\ st = cbState]
               /\ cadmit' = [cadmit EXCEPT ![c] = st]
               /\ attempts' = [attempts EXCEPT ![c] = 1]
               /\ UNCHANGED lastErr
          ELSE /\ cbCounts' = cnt
               /\ cgenOk' = [o \in Callers |-> cgenOk[o] /\ st = cbState]
               /\ attempts' = [attempts EXCEPT ![c] = 0]
               /\ lastErr' = [lastErr EXCEPT ![c] = DoError(v)]
               /\ UNCHANGED << cpc, cadmit >>
    /\ UNCHANGED notBreaker

AttemptCountsFailure(cnt) ==
    [cnt EXCEPT !.ConsecutiveFailures = Sat(@ + 1), !.ConsecutiveSuccesses = 0]

\* What a failed attempt inside doWithRetry does to the breaker's counts:
\* nothing, Execute sees only what the closure returns.
AttemptCounts(cnt) == cnt

\* An exchange ends in an outcome shouldRetry accepts (429, 5xx, connection
\* refused/reset/EOF, deadline) and retries are left: back off.
AttemptRetryable(c) ==
    /\ cpc[c] = "attempt"
    /\ attempts[c] < MaxRetries + 1
    /\ cpc' = [cpc EXCEPT ![c] = "backoff"]
    /\ cbCounts' = AttemptCounts(cbCounts)
    /\ UNCHANGED << cbState, cbElapsed, cgenOk, cadmit, attempts, lastErr >>
    /\ UNCHANGED notBreaker

\* The backoff interval ends: the operation runs again.
NextAttempt(c) ==
    /\ cpc[c] = "backoff"
    /\ cpc' = [cpc EXCEPT ![c] = "attempt"]
    /\ attempts' = [attempts EXCEPT ![c] = @ + 1]
    /\ UNCHANGED << cbState, cbCounts, cbElapsed, cgenOk, cadmit, lastErr >>
    /\ UNCHANGED notBreaker

\* onSuccess / onFailure of gobreaker for a call of the current generation;
\* neither touches the counts of an open breaker.
AfterCounts(st, cnt, success) ==
    IF st = "open" THEN cnt
    ELSE IF success
    THEN [cnt EXCEPT !.ConsecutiveSuccesses = Sat(@ + 1), !.ConsecutiveFailures = 0]
    ELSE [cnt EXCEPT !.ConsecutiveFailures = @ + 1, !.ConsecutiveSuccesses = 0]

AfterState(st, cnt, success) ==
    IF success
    THEN IF st = "half-open" /\ AfterCounts(st, cnt, success).ConsecutiveSuccesses >= MaxRequests
         THEN "closed" ELSE st
    ELSE IF st = "half-open" THEN "open"
         ELSE IF st = "closed" /\ ReadyToTrip(AfterCounts(st, cnt, success)) THEN "open"
         ELSE st

\* doWithRetry returns (success, a permanent error, or a retryable outcome
\* with no retry left) and afterRequest records the call's one outcome.
Finish(c, success) ==
    /\ cpc[c] = "attempt"
    /\ LET st    == CurrentState
           cnt   == CurrentCounts
           mine  == cgenOk[c] /\ st = cbState
           next  == IF mine THEN AfterState(st, cnt, success) ELSE st
       IN
       /\ cbState' = next
       /\ cbCounts' = IF next # st THEN ZeroCounts
                      ELSE IF mine THEN AfterCounts(st, cnt, success) ELSE cnt
       /\ cbElapsed' = IF next = "open" /\ st = "open" THEN cbElapsed ELSE 0
       /\ cgenOk' = [o \in Callers |-> IF o = c THEN FALSE
                                       ELSE cgenOk[o] /\ next = cbState]
    /\ cpc' = [cpc EXCEPT ![c] = "idle"]
    /\ lastErr' = [lastErr EXCEPT ![c] = IF success THEN "ok" ELSE "failed"]
    /\ cadmit' = [cadmit EXCEPT ![c] = "none"]
    /\ UNCHANGED attempts
    /\ UNCHANGED notBreaker

NextBreaker ==
    \/ ClockTick
    \/ \E c \in Callers : Call(c)
    \/ \E c \in Callers : AttemptRetryable(c)
    \/ \E c \in Callers : NextAttempt(c)
    \/ \E c \in Callers : Finish(c, TRUE)
    \/ \E c \in Callers : Finish(c, FALSE)

(***************************************************************************)
(* Guardrails (guardrails.go) and LLMTriager.Triage (triager.go).          *)
(*                                                                         *)
(* Strings are Go strings; strings.ToLower, strings.TrimSpace and          *)
(* strings.Contains are given by their values on the strings the model     *)
(* uses.                                                                   *)
(***************************************************************************)
MaxIndicators == 2

KnownGoodIndicators ==
    { "microsoft.com", "windowsupdate.com", "update.microsoft.com", "msftconnecttest.com",
      "office.com", "live.com", "amazonaws.com", "cloudfront.net", "googleapis.com",
      "gstatic.com", "azure.com", "cloudflare.com", "akamai.net", "fastly.net",
      "apple.com", "google.com", "mozilla.org", "ubuntu.com", "debian.org" }

HighRiskThreatTypes ==
    { "c2_server", "c2", "command_and_control", "malware_download", "ransomware", "botnet",
      "phishing", "cryptominer", "backdoor", "trojan", "rat", "webshell" }

ToLower(str) ==
    CASE str = "CDN.CLOUDFLARE.COM.login.example" -> "cdn.cloudflare.com.login.example"
      [] str = "C2_SERVER" -> "c2_server"
      [] str = "HIGH" -> "high"
      [] str = "Critical" -> "critical"
      [] OTHER -> str

TrimSpace(str) ==
    CASE str = " HIGH " -> "HIGH"
      [] OTHER -> str

\* strings.Contains(str, sub) for the lower-cased values and threat types of
\* the model against the entries of the two lists.
Contains(str, sub) ==
    \/ str = sub
    \/ << str, sub >> \in
         { << "update.microsoft.com", "microsoft.com" >>,
           << "cdn.cloudflare.com.login.example", "cloudflare.com" >>,
           << "c2_server", "c2" >>,
           << "botnet_c2", "botnet" >>,
           << "botnet_c2", "c2" >> }

isKnownGoodIndicator(value) ==
    \E good \in KnownGoodIndicators : Contains(ToLower(value), good)

isHighRiskThreatType(threatType) ==
    \E risk \in HighRiskThreatTypes : Contains(ToLower(threatType), risk)

\* DefaultGuardrailConfig()
MinConfidenceForFalsePositive == 85
RequireThreatIntelForCritical == TRUE
MaxSeverityWithoutThreatIntel == "medium"

IOCContext(v, db, srcs, tts) ==
    [Value |-> v, InDatabase |-> db, Sources |-> srcs, ThreatTypes |-> tts]

\* Enriched indicators as the webhook builds them: an indicator that is not
\* in the catalog carries no sources and no threat types.
IOCContexts ==
    { IOCContext("update.microsoft.com", FALSE, << >>, << >>),
      IOCContext("update.microsoft.com", TRUE, << "urlhaus" >>, << "bad_reputation" >>),
      IOCContext("CDN.CLOUDFLARE.COM.login.example", TRUE, << "otx" >>, << "phishing" >>),
      IOCContext("192.0.2.5", FALSE, << >>, << >>),
      IOCContext("192.0.2.5", TRUE, << "urlhaus", "otx" >>, << "bad_reputation" >>),
      IOCContext("192.0.2.5", TRUE, << "feodo" >>, << "C2_SERVER", "bad_reputation" >>),
      IOCContext("malicious-site.xyz", TRUE, << "urlhaus", "otx", "feodo" >>,
                 << "generic_malware" >>),
      IOCContext("198.51.100.200", TRUE, << "otx", "digitalside" >>,
                 << "c2_server", "ransomware" >>) }

Threats == SeqsUpTo(IOCContexts, MaxIndicators)

TriageResult(sev, pri, conf, fp, rec, note) ==
    [Severity |-> sev, Priority |-> pri, Confidence |-> conf, FalsePositive |-> fp,
     Recommended |-> rec, Note |-> note]

\* What parseResponse can hand to the post-filter: any severity string and
\* any integers the model's reply held.
ParsedResults ==
    { TriageResult(sev, pri, conf, fp, rec, FALSE) :
        sev \in { "critical", "high", "medium", "low", "info", " HIGH ", "Critical", "unknown" },
        pri \in { 0, 1, 3, 5, 9 },
        conf \in { -10, 0, 40, 64, 65, 70, 79, 80, 84, 85, 95, 100, 150 },
        fp \in BOOLEAN,
        rec \in { << >>, << "Block the address" >> } }

Max(a, b) == IF a > b THEN a ELSE b
Min(a, b) == IF a < b THEN a ELSE b
Abs(x) == IF x < 0 THEN -x ELSE x

ValidSeverities == { "critical", "high", "medium", "low", "info" }

normalizeSeverity(severity) ==
    LET sv == ToLower(TrimSpace(severity)) IN
    IF sv \in ValidSeverities THEN sv ELSE "medium"

normalizePriority(priority, severity) ==
    IF priority < 1 THEN 1 ELSE IF priority > 5 THEN 5 ELSE priority

normalizeConfidence(confidence) ==
    IF confidence < 0 THEN 0 ELSE IF confidence > 100 THEN 100 ELSE confidence

severityToPriority(severity) ==
    CASE severity = "critical" -> 1
      [] severity = "high" -> 2
      [] severity = "medium" -> 3
      [] severity = "low" -> 4
      [] severity = "info" -> 5
      [] OTHER -> 0

ensurePriorityMatchesSeverity(priority, severity) ==
    LET expectedPriority == severityToPriority(severity) IN
    IF expectedPriority = 0 THEN priority
    ELSE IF Abs(priority - expectedPriority) > 1 THEN expectedPriority
    ELSE priority

getDefaultRecommendations(severity) ==
    CASE severity = "critical" ->
           << "Immediately isolate the affected endpoint", "Initiate incident response procedures",
              "Conduct forensic analysis", "Check for indicators of lateral movement" >>
      [] severity = "high" ->
           << "Isolate the endpoint from the network", "Review endpoint activity logs",
              "Scan for additional compromised systems", "Collect forensic evidence" >>
      [] severity = "medium" ->
           << "Investigate endpoint activity", "Monitor for suspicious behavior",
              "Review logs for related indicators" >>
      [] severity = "low" ->
           << "Monitor the endpoint", "Document findings for future reference" >>
      [] OTHER -> << "Review and document for analysis" >>

Range(seq) == { seq[i] : i \in 1..Len(seq) }

iocsInDB(th) == Cardinality({ i \in 1..Len(th) : th[i].InDatabase })

hasHighRiskTypes(th) ==
    \E i \in 1..Len(th) :
        th[i].InDatabase /\ \E tt \in Range(th[i].ThreatTypes) : isHighRiskThreatType(tt)

uniqueSources(th) == UNION { Range(th[i].Sources) : i \in 1..Len(th) }

\* hasIOCs && allKnownGood
PreAllKnownGood(th) ==
    /\ Len(th) > 0
    /\ \A i \in 1..Len(th) : isKnownGoodIndicator(th[i].Value)

\* ApplyPreLLMGuardrails: [skip |-> shouldSkipLLM, result |-> the result]
ApplyPreLLMGuardrails(th) ==
    IF PreAllKnownGood(th)
    THEN [skip |-> TRUE,
          result |-> TriageResult("info", 5, 95, TRUE,
                        << "Mark as false positive",
                           "Adjust detection rules to exclude legitimate services" >>, FALSE)]
    ELSE IF hasHighRiskTypes(th)
    THEN [skip |-> TRUE,
          result |-> TriageResult("high", 2, 90, FALSE,
                        << "Isolate affected endpoint immediately", "Conduct forensic analysis",
                           "Check for lateral movement", "Scan other endpoints for similar IOCs" >>,
                        FALSE)]
    ELSE [skip |-> FALSE, result |-> TriageResult("", 0, 0, FALSE, << >>, FALSE)]

FpFloorOff(r) == r

\* Guardrail 5: a false positive needs confidence >= MinConfidenceForFalsePositive
FpFloor(r) ==
    IF r.FalsePositive /\ r.Confidence < MinConfidenceForFalsePositive
    THEN [r EXCEPT !.FalsePositive = FALSE, !.Severity = "low", !.Priority = 4, !.Note = TRUE]
    ELSE r

\* Validate and normalize fields (lines 139-141).
NormalizeFields(result) ==
    [result EXCEPT !.Severity = normalizeSeverity(result.Severity),
                   !.Priority = normalizePriority(result.Priority,
                                                  normalizeSeverity(result.Severity)),
                   !.Confidence = normalizeConfidence(result.Confidence)]

Guardrail1Off(r, th) == r

\* Guardrail 1: no false positive while indicators are in the catalog.
Guardrail1(r, th) ==
    IF r.FalsePositive /\ iocsInDB(th) > 0
    THEN LET lowish == r.Severity \in { "info", "low" } IN
         [r EXCEPT !.FalsePositive = FALSE,
                   !.Confidence = Max(r.Confidence - 20, 50),
                   !.Severity = IF lowish THEN "medium" ELSE @,
                   !.Priority = IF lowish THEN 3 ELSE @]
    ELSE r

\* Guardrail 2: high-risk threat types cannot be of low severity.
Guardrail2(r, th) ==
    IF hasHighRiskTypes(th) /\ r.Severity \in { "info", "low" }
    THEN [r EXCEPT !.Severity = "high", !.Priority = 2, !.FalsePositive = FALSE,
                   !.Confidence = Max(r.Confidence + 10, 85)]
    ELSE r

Guardrail3Off(r, th) == r

\* Guardrail 3: no critical, and no unsure high, without threat intel.
Guardrail3(r, th) ==
    IF RequireThreatIntelForCritical /\ iocsInDB(th) = 0
    THEN IF r.Severity = "critical"
         THEN [r EXCEPT !.Severity = "high", !.Priority = 2,
                        !.Confidence = Min(r.Confidence, 75)]
         ELSE IF r.Severity = "high" /\ r.Confidence < 80
         THEN [r EXCEPT !.Severity = "medium", !.Priority = 3,
                        !.Confidence = Min(r.Confidence, 70)]
         ELSE r
    ELSE r

Guardrail4Off(r, th) == r

\* Guardrail 4: three or more distinct sources raise the confidence.
Guardrail4(r, th) ==
    IF iocsInDB(th) > 0 /\ Cardinality(uniqueSources(th)) >= 3
    THEN [r EXCEPT !.Confidence = Min(r.Confidence + 15, 98)]
    ELSE r

\* Guardrail 6: severity and priority agree.
Guardrail6(r) ==
    [r EXCEPT !.Priority = ensurePriorityMatchesSeverity(r.Priority, r.Severity)]

\* Guardrail 7: a result that is no false positive has recommended actions.
Guardrail7(r) ==
    IF ~r.FalsePositive /\ Len(r.Recommended) = 0
    THEN [r EXCEPT !.Recommended = getDefaultRecommendations(r.Severity)]
    ELSE r

\* The result after each statement of ApplyPostLLMGuardrails: the fields
\* normalized, then guardrails 1 to 7 in the order of the code.
PostStages(result, th) ==
    LET r0 == NormalizeFields(result)
        r1 == Guardrail1(r0, th)
        r2 == Guardrail2(r1, th)
        r3 == Guardrail3(r2, th)
        r4 == Guardrail4(r3, th)
        r5 == FpFloor(r4)
        r6 == Guardrail6(r5)
        r7 == Guardrail7(r6)
    IN << r0, r1, r2, r3, r4, r5, r6, r7 >>

\* ApplyPostLLMGuardrails: what it returns.
ApplyPostLLMGuardrails(result, th) == PostStages(result, th)[8]

SkipsLLMNever(th) == FALSE

\* if preResult, shouldSkip := ApplyPreLLMGuardrails(threat, config); shouldSkip
SkipsLLM(th) == ApplyPreLLMGuardrails(th).skip

NoResult == TriageResult("", 0, 0, FALSE, << >>, FALSE)

TriageInit ==
    /\ tpc = "idle"
    /\ threat = << >>
    /\ llmCalled = FALSE
    /\ tres = [err |-> "none", result |-> NoResult]

\* The webhook hands an alert's enriched indicators to Triage.
ReceiveAlert ==
    /\ tpc = "idle"
    /\ \E th \in Threats : threat' = th
    /\ tpc' = "received"
    /\ llmCalled' = FALSE
    /\ tres' = [err |-> "none", result |-> NoResult]
    /\ UNCHANGED tenabled
    /\ UNCHANGED notTriage

\* if !t.enabled { return nil, error }
TriageDisabled ==
    /\ tpc = "received"
    /\ ~tenabled
    /\ tres' = [err |-> "not enabled", result |-> NoResult]
    /\ tpc' = "returned"
    /\ UNCHANGED << tenabled, threat, llmCalled >>
    /\ UNCHANGED notTriage

\* The pre-filter short-circuits: its result is returned.
TriagePreFilter ==
    /\ tpc = "received"
    /\ tenabled
    /\ SkipsLLM(threat)
    /\ tres' = [err |-> "none", result |-> ApplyPreLLMGuardrails(threat).result]
    /\ tpc' = "returned"
    /\ UNCHANGED << tenabled, threat, llmCalled >>
    /\ UNCHANGED notTriage

\* callLLM or parseResponse fails: Triage returns the error.
TriageLLMError ==
    /\ tpc = "received"
    /\ tenabled
    /\ ~SkipsLLM(threat)
    /\ \E e \in { "failed to call LLM", "failed to parse LLM response" } :
          tres' = [err |-> e, result |-> NoResult]
    /\ llmCalled' = TRUE
    /\ tpc' = "returned"
    /\ UNCHANGED << tenabled, threat >>
    /\ UNCHANGED notTriage

\* The LLM answers and the reply parses: the post-filter's output is returned.
TriageLLM ==
    /\ tpc = "received"
    /\ tenabled
    /\ ~SkipsLLM(threat)
    /\ \E parsed \in ParsedResults :
          tres' = [err |-> "none", result |-> ApplyPostLLMGuardrails(parsed, threat)]
    /\ llmCalled' = TRUE
    /\ tpc' = "returned"
    /\ UNCHANGED << tenabled, threat >>
    /\ UNCHANGED notTriage

\* The caller has the result; the next alert can come.
TriageDone ==
    /\ tpc = "returned"
    /\ tpc' = "idle"
    /\ threat' = << >>
    /\ llmCalled' = FALSE
    /\ tres' = [err |-> "none", result |-> NoResult]
    /\ UNCHANGED tenabled
    /\ UNCHANGED notTriage

NextTriage ==
    \/ ReceiveAlert
    \/ TriageDisabled
    \/ TriagePreFilter
    \/ TriageLLMError
    \/ TriageLLM
    \/ TriageDone

(***************************************************************************)
(* ResilientClient.doWithRetry, one call in detail: the attempts, what     *)
(* each sends, the request's context and the backoff between attempts.     *)
(* backoff.Retry (github.com/cenkalti/backoff/v4) runs the operation,      *)
(* returns on nil or on a Permanent error, asks NextBackOff (Stop once the *)
(* context is done or MaxRetries retries were made) and waits in a select  *)
(* on the timer and ctx.Done().                                            *)
(***************************************************************************)
\* Bodies of the requests made: none (GET, req.Body == nil) or the JSON
\* callLLM marshals, as the chunks a reader yields.
RequestBodies == { << >>, << "json-1", "json-2" >> }

RetrySettings == { 0, MaxRetries }

\* resp.StatusCode, as text
StatusCodes == { "200", "400", "429", "500", "501", "503" }

\* resp.StatusCode >= 400
IsErrorStatus(o) == o \in StatusCodes \ { "200" }

ErrorKinds == { "connection refused", "EOF", "deadline exceeded", "context canceled", "other" }

IsStatus(o) == o \in StatusCodes

shouldRetryAlways(o) == TRUE

\* shouldRetry(err, nil) / shouldRetry(nil, resp)
shouldRetry(o) ==
    IF IsStatus(o) THEN o \in { "429", "503", "504", "502", "500" }
    ELSE o \in { "deadline exceeded", "connection refused", "connection reset", "EOF" }

\* What c.client.Do can give for a request whose context is in state ctx:
\* with a context that is done, the context's error.
DoOutcomes(ctx) ==
    CASE ctx = "canceled" -> { "context canceled" }
      [] ctx = "deadline" -> { "deadline exceeded" }
      [] OTHER -> StatusCodes \cup (ErrorKinds \ { "context canceled" })

\* How much of the body the transport has read when Do returns o: all of
\* it when a response came back, none when no connection was made.
Consumed(o, body) ==
    IF IsStatus(o) THEN { Len(body) }
    ELSE IF o = "connection refused" THEN { 0 }
    ELSE 0..Len(body)

RetryInit ==
    /\ rpc = "idle"
    /\ rmax = 0
    /\ rctx = "live"
    /\ rbody = << >>
    /\ rsent = << >>
    /\ rwire = 0
    /\ routs = << >>
    /\ rret = "none"

\* The caller's context is cancelled or its deadline passes.
CtxDone ==
    /\ rctx = "live"
    /\ rpc # "returned"
    /\ \E k \in { "canceled", "deadline" } : rctx' = k
    /\ UNCHANGED << rpc, rmax, rbody, rsent, rwire, routs, rret >>
    /\ UNCHANGED notRetry

\* bodyBytes, _ = io.ReadAll(req.Body); if len(bodyBytes) > 0 { req.Body =
\* reader over bodyBytes }: the body the attempt sends is what was left to
\* read of req.Body.
BodyForAttempt(left) == left

\* The operation up to c.client.Do(req); a request whose context is done
\* is not put on the wire.
BeginAttempt ==
    /\ rsent' = Append(rsent, BodyForAttempt(rbody))
    /\ rbody' = BodyForAttempt(rbody)
    /\ rwire' = IF rctx = "live" THEN rwire + 1 ELSE rwire
    /\ rpc' = "attempt"

\* doWithRetry(req) is called.
StartCall ==
    /\ rpc = "idle"
    /\ \E b \in RequestBodies, m \in RetrySettings :
          /\ rmax' = m
          /\ rsent' = << BodyForAttempt(b) >>
          /\ rbody' = BodyForAttempt(b)
    /\ rwire' = IF rctx = "live" THEN rwire + 1 ELSE rwire
    /\ rpc' = "attempt"
    /\ UNCHANGED << rctx, routs, rret >>
    /\ UNCHANGED notRetry

NextBackOffIgnoresContext(ctx, tries, max) == tries >= max

\* NextBackOff of backoff.WithContext(backoff.WithMaxRetries(b, MaxRetries),
\* ctx) gives Stop: the context is done, or MaxRetries retries were made.
NextBackOffStops(ctx, tries, max) == ctx # "live" \/ tries >= max

\* c.client.Do returns o.  With MaxRetries = 0: an error or a status >= 400
\* is the call's error.  Otherwise: nil ends the call, a Permanent error
\* ends it, a retryable outcome asks NextBackOff, which stops when the
\* context is done or MaxRetries retries have been made.
EndAttempt ==
    /\ rpc = "attempt"
    /\ \E o \in DoOutcomes(rctx) :
          /\ routs' = Append(routs, o)
          /\ \E n \in (IF rwire = Len(rsent) THEN Consumed(o, rbody) ELSE { 0 }) :
                rbody' = SubSeq(rbody, n + 1, Len(rbody))
          /\ LET failed == ~IsStatus(o) \/ IsErrorStatus(o)
                 again == /\ rmax # 0
                          /\ shouldRetry(o)
                          /\ ~NextBackOffStops(rctx, Len(routs), rmax)
             IN
             IF ~failed THEN rpc' = "returned" /\ rret' = "ok"
             ELSE IF again THEN rpc' = "backoff" /\ rret' = rret
             ELSE rpc' = "returned" /\ rret' = "err"
    /\ UNCHANGED << rmax, rctx, rsent, rwire >>
    /\ UNCHANGED notRetry

\* select { case <-t.C(): } : the backoff interval ends, the operation runs
\* again.  (With the context done too, select may still take this case.)
TimerFires ==
    /\ rpc = "backoff"
    /\ BeginAttempt
    /\ UNCHANGED << rmax, rctx, routs, rret >>
    /\ UNCHANGED notRetry

\* select { case <-ctx.Done(): return ctx.Err() }
BackoffCancelled ==
    /\ rpc = "backoff"
    /\ rctx # "live"
    /\ rpc' = "returned"
    /\ rret' = "err"
    /\ UNCHANGED << rmax, rctx, rbody, rsent, rwire, routs >>
    /\ UNCHANGED notRetry

\* The caller has the result; the next call gets a context of its own.
CallDone ==
    /\ rpc = "returned"
    /\ rpc' = "idle"
    /\ rmax' = 0
    /\ rctx' = "live"
    /\ rbody' = << >>
    /\ rsent' = << >>
    /\ rwire' = 0
    /\ routs' = << >>
    /\ rret' = "none"
    /\ UNCHANGED notRetry

NextRetry ==
    \/ CtxDone
    \/ StartCall
    \/ EndAttempt
    \/ TimerFires
    \/ BackoffCancelled
    \/ CallDone

(***************************************************************************)
(* RestHandler.SentinelOneWebhook (internal/adapter/handler).              *)
(* One request is followed from the decoding of its body to the response.  *)
(* The catalog, the LLM and the notifier answer as they may: any rows or   *)
(* an error, any reply or an error, delivery or an error.                  *)
(***************************************************************************)

\* Request bodies.  syntax: the bytes are a JSON value or not ("{invalid}");
\* alertId: the JSON type of the member "alertId" ("string" as in
\* SentinelOneAlert, or "number"); indicators: the values of "indicators".
HookValues == { "update.microsoft.com", "192.0.2.5" }

Bodies ==
    { [syntax |-> sx, alertId |-> ty, indicators |-> inds] :
        sx \in { "valid", "invalid" }, ty \in { "string", "number" },
        inds \in SeqsUpTo(HookValues, MaxIndicators) }

DecodeAcceptsAnyJSON(body) == body.syntax = "valid"

\* json.NewDecoder(r.Body).Decode(&payload) returns nil: the bytes are JSON
\* and every member has the type of its field in SentinelOneAlert.
DecodeOk(body) == body.syntax = "valid" /\ body.alertId = "string"

\* Rows a catalog query returns for a value.
\* A row of iocs: its source, threat type and first_seen.
Row(src, tt, fs) == [Source |-> src, ThreatType |-> tt, FirstSeen |-> fs]

\* What a SELECT ... ORDER BY date_ingested DESC returns: the row ingested
\* last comes first, whatever its first_seen.

CatalogRows ==
    { << >>,
      << Row("feodo", "C2_SERVER", 3) >>,
      << Row("urlhaus", "bad_reputation", 2), Row("otx", "bad_reputation", 1) >> }

\* FindAllByValue / FindContaining: rows, or an error with no rows.
QueryResults == { [err |-> FALSE, rows |-> r] : r \in CatalogRows }
                   \cup { [err |-> TRUE, rows |-> << >>] }

InSeq(x, q) == \E i \in 1..Len(q) : q[i] = x

RECURSIVE uniqueStrings(_)
uniqueStrings(slice) ==
    IF slice = << >> THEN << >>
    ELSE LET front == uniqueStrings(SubSeq(slice, 1, Len(slice) - 1))
             last == slice[Len(slice)]
         IN IF InSeq(last, front) THEN front ELSE Append(front, last)

\* The EnrichedIndicator appended for value once the queries gave iocs.
Enriched(value, iocs) ==
    IF Len(iocs) = 0
    THEN IOCContext(value, FALSE, << >>, << >>)
    ELSE IOCContext(value, TRUE,
                    uniqueStrings([i \in 1..Len(iocs) |-> iocs[i].Source]),
                    uniqueStrings([i \in 1..Len(iocs) |-> iocs[i].ThreatType]))

\* One pass of the loop over payload.Indicators, given what FindAllByValue
\* and (when it is called) FindContaining return: the list afterwards.
\* An error of the exact query takes the continue of line 214.
EnrichStep(enriched, value, exact, pattern) ==
    IF exact.err THEN enriched
    ELSE IF Len(exact.rows) = 0
         THEN Append(enriched, Enriched(value, pattern.rows))
         ELSE Append(enriched, Enriched(value, exact.rows))

\* iocs as the loop holds it when it appends an indicator.
FoundRows(exact, pattern) == IF Len(exact.rows) = 0 THEN pattern.rows ELSE exact.rows

\* EnrichedIndicator.FirstSeen: iocs[0].FirstSeen, the zero time when
\* nothing was found.
EnrichedFirstSeen(iocs) == IF Len(iocs) = 0 THEN 0 ELSE iocs[1].FirstSeen

LookupKind(exact, pattern) ==
    IF exact.err THEN "exact-failed"
    ELSE IF Len(exact.rows) > 0 THEN "found"
    ELSE IF pattern.err THEN "pattern-failed"
    ELSE IF Len(pattern.rows) > 0 THEN "found" ELSE "missing"

RECURSIVE countEnriched(_)
countEnriched(indicators) ==
    IF indicators = << >> THEN 0
    ELSE countEnriched(Tail(indicators)) + (IF Head(indicators).InDatabase THEN 1 ELSE 0)

\* What the LLM's replies hold once parsed, as far as the handler can tell
\* them apart.
LLMReplies ==
    { r \in ParsedResults : /\ r.Severity \in { "critical", "info", "unknown" }
                            /\ r.Priority \in { 0, 3 }
                            /\ r.Recommended = << >> }

\* LLMTriager.Triage on an enabled triager: every (result, err) it can return.
TriageOutcomes(th) ==
    IF SkipsLLM(th)
    THEN { [err |-> "none", result |-> ApplyPreLLMGuardrails(th).result] }
    ELSE { [err |-> e, result |-> NoResult] :
              e \in { "failed to call LLM", "failed to parse LLM response" } }
         \cup { [err |-> "none", result |-> ApplyPostLLMGuardrails(parsed, th)] :
                  parsed \in LLMReplies }

SkipNotificationConfidence == 80

NeverSkipsNotification(result) == FALSE

\* if triageResult.FalsePositive && triageResult.Confidence >= 80
SkipsNotification(result) ==
    result.FalsePositive /\ result.Confidence >= SkipNotificationConfidence

NoTriage == [called |-> FALSE, err |-> "none", result |-> NoResult]

NoResponse ==
    [code |-> 0, envelope |-> FALSE, indicators_enriched |-> 0, indicators_in_db |-> 0,
     slack_notification |-> FALSE, llm_triaged |-> FALSE, false_positive |-> FALSE]

\* writeError(w, http.StatusBadRequest, "invalid JSON payload")
BadRequest == [NoResponse EXCEPT !.code = 400]

\* writeJSON(w, http.StatusOK, response) with "status": "received"
Received(enriched, slack, triaged, fp) ==
    [code |-> 200, envelope |-> TRUE, indicators_enriched |-> Len(enriched),
     indicators_in_db |-> countEnriched(enriched), slack_notification |-> slack,
     llm_triaged |-> triaged, false_positive |-> fp]

HookInit ==
    /\ hpc = "idle"
    /\ hbody = [syntax |-> "valid", alertId |-> "string", indicators |-> << >>]
    /\ hidx = 1
    /\ hlookups = << >>
    /\ henriched = << >>
    /\ hiocs = << >>
    /\ hseen = << >>
    /\ htriage = NoTriage
    /\ hnotify = << >>
    /\ hresp = NoResponse

\* A request arrives and its body is decoded: 400 if that fails.
HookDecode ==
    /\ hpc = "idle"
    /\ \E body \in Bodies :
          /\ hbody' = body
          /\ IF DecodeOk(body)
             THEN hpc' = "enrich" /\ hresp' = NoResponse
             ELSE hpc' = "done" /\ hresp' = BadRequest
    /\ hidx' = 1
    /\ hlookups' = << >>
    /\ henriched' = << >>
    /\ hiocs' = << >>
    /\ hseen' = << >>
    /\ htriage' = NoTriage
    /\ hnotify' = << >>
    /\ UNCHANGED << hnotifier, htriager >>
    /\ UNCHANGED notHook

\* One indicator of the enrichment loop.
HookEnrich ==
    /\ hpc = "enrich"
    /\ hidx <= Len(hbody.indicators)
    /\ \E exact \in QueryResults, pattern \in QueryResults :
          /\ henriched' = EnrichStep(henriched, hbody.indicators[hidx], exact, pattern)
          /\ hiocs' = IF exact.err THEN hiocs ELSE Append(hiocs, FoundRows(exact, pattern))
          /\ hseen' = IF exact.err THEN hseen
                      ELSE Append(hseen, EnrichedFirstSeen(FoundRows(exact, pattern)))
          /\ hlookups' = Append(hlookups, LookupKind(exact, pattern))
    /\ hidx' = hidx + 1
    /\ UNCHANGED << hnotifier, htriager, hpc, hbody, htriage, hnotify, hresp >>
    /\ UNCHANGED notHook

\* The loop is over and there is no triager, or it is not enabled.
HookNoTriage ==
    /\ hpc = "enrich"
    /\ hidx > Len(hbody.indicators)
    /\ ~(htriager /\ tenabled)
    /\ hpc' = "notify"
    /\ UNCHANGED << hnotifier, htriager, hbody, hidx, hlookups, henriched, hiocs, hseen, htriage,
                    hnotify, hresp >>
    /\ UNCHANGED notHook

\* The loop is over and Triage is called on the enriched indicators.  A
\* likely false positive is answered at once, without notification.
HookTriage ==
    /\ hpc = "enrich"
    /\ hidx > Len(hbody.indicators)
    /\ htriager /\ tenabled
    /\ \E out \in TriageOutcomes(henriched) :
          /\ htriage' = [called |-> TRUE, err |-> out.err, result |-> out.result]
          /\ IF out.err = "none" /\ SkipsNotification(out.result)
             THEN /\ hpc' = "done"
                  /\ hresp' = Received(henriched, FALSE, TRUE, TRUE)
             ELSE /\ hpc' = "notify"
                  /\ UNCHANGED hresp
    /\ UNCHANGED << hnotifier, htriager, hbody, hidx, hlookups, henriched, hiocs, hseen, hnotify >>
    /\ UNCHANGED notHook

Triaged == htriage.called /\ htriage.err = "none"

\* The notifier, if there is one, is called with or without the triage
\* result; its error is logged.  Then the response is written.
HookNotify ==
    /\ hpc = "notify"
    /\ IF hnotifier
       THEN \E failed \in BOOLEAN :
               hnotify' = Append(hnotify,
                             [triage |-> IF Triaged THEN htriage.result ELSE NoResult,
                              withTriage |-> Triaged,
                              enriched |-> henriched,
                              err |-> failed])
       ELSE UNCHANGED hnotify
    /\ hresp' = Received(henriched, hnotifier, Triaged, FALSE)
    /\ hpc' = "done"
    /\ UNCHANGED << hnotifier, htriager, hbody, hidx, hlookups, henriched, hiocs, hseen, htriage >>
    /\ UNCHANGED notHook

\* The handler has returned; the next request can come.
HookDone ==
    /\ hpc = "done"
    /\ hpc' = "idle"
    /\ UNCHANGED << hnotifier, htriager, hbody, hidx, hlookups, henriched, hiocs, hseen, htriage,
                    hnotify, hresp >>
    /\ UNCHANGED notHook

NextHook ==
    \/ HookDecode
    \/ HookEnrich
    \/ HookNoTriage
    \/ HookTriage
    \/ HookNotify
    \/ HookDone

(***************************************************************************)
(* ApplyPostLLMGuardrails as a function of its arguments: any parsed       *)
(* result and any list of enriched indicators.                             *)
(***************************************************************************)
GuardInit ==
    /\ gpc = "idle"
    /\ gth = << >>
    /\ gstages = << >>
    /\ gparsed = NoResult

ApplyPost ==
    /\ gpc = "idle"
    /\ \E parsed \in ParsedResults, th \in Threats :
          /\ gth' = th
          /\ gstages' = PostStages(parsed, th)
          /\ gparsed' = parsed
    /\ gpc' = "done"
    /\ UNCHANGED notGuard

PostReturned ==
    /\ gpc = "done"
    /\ gpc' = "idle"
    /\ gth' = << >>
    /\ gstages' = << >>
    /\ gparsed' = NoResult
    /\ UNCHANGED notGuard

NextGuard == ApplyPost \/ PostReturned

(***************************************************************************)
(* CheckIOC, REST (rest_handler.go) and gRPC (grpc.go), over a catalog     *)
(* that ingestion has filled.                                              *)
(***************************************************************************)
\* Catalogs SaveBatch can have produced.
SavedCatalogs == { InsertAll(<< >>, b) : b \in SeqsUpTo(RepoIOCs, MaxBatchLen) }

\* The values asked for: in the catalog, not in the catalog, missing.
CheckValues == { "a", "b", "" }

HasValue(rows, value) == \E i \in 1..Len(rows) : rows[i].value = value

\* FindByValue: SELECT ... WHERE value = $1 LIMIT 1, scanned.  A row, or
\* pgx.ErrNoRows, or, when the storage fails, another error.
FindByValueResults(rows, value) ==
    { "failure" } \cup (IF HasValue(rows, value) THEN { "row" } ELSE { "no-rows" })

NoAnswer == [status |-> "none", exists |-> "none"]

\* RestHandler.CheckIOC after FindByValue: any error is answered as not found.
RestCheckAnswer(found) ==
    IF found # "row"
    THEN [status |-> "200", exists |-> "false"]
    ELSE [status |-> "200", exists |-> "true"]

\* GrpcServer.CheckIOC after FindByValue: ErrNoRows is not found, any other
\* error is returned.
GrpcCheckAnswer(found) ==
    IF found = "no-rows" THEN [status |-> "OK", exists |-> "false"]
    ELSE IF found = "failure" THEN [status |-> "error", exists |-> "none"]
    ELSE [status |-> "OK", exists |-> "true"]

CheckInit ==
    /\ kpc = "idle"
    /\ kvia = "rest"
    /\ kvalue = ""
    /\ kfind = "none"
    /\ kresp = NoAnswer

\* A request arrives: an empty value is refused, otherwise FindByValue is called.
CheckRequest ==
    /\ kpc = "idle"
    /\ \E via \in { "rest", "grpc" }, value \in CheckValues :
          /\ kvia' = via
          /\ kvalue' = value
          /\ IF value = ""
             THEN /\ kpc' = "done"
                  /\ kresp' = IF via = "rest" THEN [status |-> "400", exists |-> "none"]
                                              ELSE [status |-> "error", exists |-> "none"]
             ELSE /\ kpc' = "query"
                  /\ kresp' = NoAnswer
    /\ kfind' = "none"
    /\ UNCHANGED notCheck

\* FindByValue returns and the handler answers.
CheckAnswer ==
    /\ kpc = "query"
    /\ \E found \in FindByValueResults(catalog, kvalue) :
          /\ kfind' = found
          /\ kresp' = IF kvia = "rest" THEN RestCheckAnswer(found) ELSE GrpcCheckAnswer(found)
    /\ kpc' = "done"
    /\ UNCHANGED << kvia, kvalue >>
    /\ UNCHANGED notCheck

CheckDone ==
    /\ kpc = "done"
    /\ kpc' = "idle"
    /\ UNCHANGED << kvia, kvalue, kfind, kresp >>
    /\ UNCHANGED notCheck

NextCheck == CheckRequest \/ CheckAnswer \/ CheckDone

(***************************************************************************)
(* SearchIOC, REST and gRPC: parsePackageVersion, then                     *)
(* FindByValueAndVersion or FindAllByValue.  A value is a sequence of      *)
(* characters, so that the split is computed as the code computes it.      *)
(***************************************************************************)
MaxQueryLen == 4

\* "l": a package name (lodash); "@", "o": the scoped name @o; "4", "5":
\* versions; "": the wildcard version.
SearchRows ==
    << IOC(<< "l" >>, "osv", << >>, "malware"),
       IOC(<< "l" >>, "osv", << "4" >>, "malware"),
       IOC(<< "l" >>, "osv", << "5" >>, "malware"),
       IOC(<< "@", "o" >>, "osv", << "4" >>, "malware"),
       IOC(<< "@", "o" >>, "osv", << "5" >>, "malware"),
       IOC(<< "@", "o", "@", "4" >>, "otx", << >>, "phishing"),
       IOC(<< "l", "@", "4" >>, "otx", << >>, "phishing") >>

SearchCatalogs == { << >>, SearchRows, SubSeq(SearchRows, 2, 5) }

QueryChars == { "@", "l", "o", "4" }

Queries == SeqsUpTo(QueryChars, MaxQueryLen)

\* strings.LastIndex(value, "@"), counted from 1; 0 when there is none.
LastIndexAt(value) ==
    LET at == { i \in 1..Len(value) : value[i] = "@" } IN
    IF at = { } THEN 0 ELSE CHOOSE i \in at : \A j \in at : j <= i

SplitAt(value, at) ==
    IF at = 0 THEN << value, << >> >>
    ELSE IF value[1] = "@" /\ at = 1 THEN << value, << >> >>
    ELSE << SubSeq(value, 1, at - 1), SubSeq(value, at + 1, Len(value)) >>

parsePackageVersionFirstAt(value) ==
    LET at == { i \in 1..Len(value) : value[i] = "@" } IN
    SplitAt(value, IF at = { } THEN 0 ELSE CHOOSE i \in at : \A j \in at : i <= j)

\* parsePackageVersion: (package, version)
parsePackageVersion(value) == SplitAt(value, LastIndexAt(value))

RECURSIVE Reverse(_)
Reverse(q) == IF q = << >> THEN << >> ELSE Append(Reverse(Tail(q)), Head(q))

\* WHERE value = $1 AND (version = $2 OR version = '') ORDER BY date_ingested DESC
FindByValueAndVersion(rows, value, version) ==
    LET Keep(r) == r.value = value /\ (r.version = version \/ r.version = << >>)
    IN Reverse(SelectSeq(rows, Keep))

\* WHERE value = $1 ORDER BY date_ingested DESC
FindAllByValue(rows, value) ==
    LET Keep(r) == r.value = value IN Reverse(SelectSeq(rows, Keep))

\* What the handler asks the repository for.
SearchRowsFor(rows, value) ==
    LET pv == parsePackageVersion(value) IN
    IF pv[2] # << >>
    THEN FindByValueAndVersion(rows, pv[1], pv[2])
    ELSE FindAllByValue(rows, pv[1])

NoSearchAnswer == [status |-> "none", iocs |-> << >>, count |-> 0]

SearchInit ==
    /\ qpc = "idle"
    /\ qvia = "rest"
    /\ qvalue = << >>
    /\ qresp = NoSearchAnswer

\* A request arrives: an empty value is refused, otherwise the query is made.
SearchRequest ==
    /\ qpc = "idle"
    /\ \E via \in { "rest", "grpc" }, value \in Queries :
          /\ qvia' = via
          /\ qvalue' = value
          /\ IF value = << >>
             THEN /\ qpc' = "done"
                  /\ qresp' = [NoSearchAnswer EXCEPT
                                  !.status = IF via = "rest" THEN "400" ELSE "error"]
             ELSE /\ qpc' = "query"
                  /\ qresp' = NoSearchAnswer
    /\ UNCHANGED notSearch

\* The query fails: 500, or the error as the gRPC result.
SearchFails ==
    /\ qpc = "query"
    /\ qresp' = [NoSearchAnswer EXCEPT !.status = IF qvia = "rest" THEN "500" ELSE "error"]
    /\ qpc' = "done"
    /\ UNCHANGED << qvia, qvalue >>
    /\ UNCHANGED notSearch

\* The query returns its rows: one sighting per row, count = len(iocList).
SearchAnswer ==
    /\ qpc = "query"
    /\ LET iocs == SearchRowsFor(catalog, qvalue) IN
       qresp' = [status |-> IF qvia = "rest" THEN "200" ELSE "OK",
                 iocs |-> iocs, count |-> Len(iocs)]
    /\ qpc' = "done"
    /\ UNCHANGED << qvia, qvalue >>
    /\ UNCHANGED notSearch

SearchDone ==
    /\ qpc = "done"
    /\ qpc' = "idle"
    /\ qvia' = "rest"
    /\ qvalue' = << >>
    /\ qresp' = NoSearchAnswer
    /\ UNCHANGED notSearch

NextSearch == SearchRequest \/ SearchFails \/ SearchAnswer \/ SearchDone

(***************************************************************************)
(* The REST router (gorilla/mux) with authMiddleware in front of every     *)
(* matched route.                                                          *)
(***************************************************************************)
Routes ==
    { [path |-> "/api/v1/health", method |-> "GET", handler |-> "Health"],
      [path |-> "/api/v1/iocs/check", method |-> "GET", handler |-> "CheckIOC"],
      [path |-> "/api/v1/iocs/search", method |-> "GET", handler |-> "SearchIOC"],
      [path |-> "/api/v1/iocs/feed", method |-> "GET", handler |-> "GetIOCFeed"],
      [path |-> "/api/v1/webhooks/sentinelone", method |-> "POST",
       handler |-> "SentinelOneWebhook"],
      [path |-> "/metrics", method |-> "GET", handler |-> "promhttp"] }

Secrets == { "", "s3cret" }

\* Values of the Authorization header; "" when the header is absent.
AuthHeaders ==
    { "", "Bearer s3cret", "Bearer wrong", "s3cret", "bearer s3cret", "Bearer s3cret ",
      "Bearer " }

Requests ==
    { [path |-> p, method |-> m, auth |-> a] :
        p \in { r.path : r \in Routes } \cup { "/api/v1/health/", "/api/v1/other" },
        m \in { "GET", "POST" },
        a \in AuthHeaders }

\* The route mux matches, if any: path and method both as registered.
Matched(req) == { r \in Routes : r.path = req.path /\ r.method = req.method }

\* mux's answer without a match: 405 for a known path, 404 otherwise.
Unmatched(req) == IF \E r \in Routes : r.path = req.path THEN 405 ELSE 404

AnyTokenPasses(token, expectedToken) == token # ""

\* token == "Bearer "+expectedToken
TokenPasses(token, expectedToken) == token = "Bearer " \o expectedToken

\* authMiddleware: whether next.ServeHTTP is called.
AuthPasses(req, expectedToken) ==
    \/ req.path = "/api/v1/health"
    \/ expectedToken = ""
    \/ TokenPasses(req.auth, expectedToken)

AuthInit ==
    /\ apc = "idle"
    /\ areq = [path |-> "/api/v1/health", method |-> "GET", auth |-> ""]
    /\ aran = "none"
    /\ astatus = 0

AuthRequest ==
    /\ apc = "idle"
    /\ \E req \in Requests : areq' = req
    /\ apc' = "routed"
    /\ aran' = "none"
    /\ astatus' = 0
    /\ UNCHANGED asecret
    /\ UNCHANGED notAuth

\* The router serves the request: without a matching route it answers
\* itself; with one, the middleware runs and calls the handler or writes 401.
AuthServe ==
    /\ apc = "routed"
    /\ IF Matched(areq) = { }
       THEN /\ aran' = "none"
            /\ astatus' = Unmatched(areq)
       ELSE IF AuthPasses(areq, asecret)
       THEN /\ aran' = (CHOOSE r \in Matched(areq) : TRUE).handler
            /\ astatus' = 0
       ELSE /\ aran' = "none"
            /\ astatus' = 401
    /\ apc' = "done"
    /\ UNCHANGED << asecret, areq >>
    /\ UNCHANGED notAuth

AuthDone ==
    /\ apc = "done"
    /\ apc' = "idle"
    /\ UNCHANGED << asecret, areq, aran, astatus >>
    /\ UNCHANGED notAuth

NextAuth == AuthRequest \/ AuthServe \/ AuthDone

(***************************************************************************)
(* URL feeds: URLhausProvider.FetchIOCS passes each URL through            *)
(* domain.ExtractIOCComponents, OTXProvider.FetchIOCS appends its          *)
(* indicators as they are; the coordinator saves what it receives in       *)
(* batches.  A value is held parsed: scheme, host and the rest.            *)
(***************************************************************************)
UrlValue(scheme, host, rest) == [scheme |-> scheme, host |-> host, rest |-> rest]

FeedUrls ==
    { UrlValue("http", "198.51.100.7", "/a.sh"),
      UrlValue("https", "evil.example", "/login"),
      UrlValue("ftp", "198.51.100.7", "/a.sh") }

\* net.ParseIP(host) != nil
ParseIP(host) == host \in { "198.51.100.7", "192.0.2.5" }

\* strings.HasPrefix(value, "http://") || strings.HasPrefix(value, "https://")
HasHttpPrefix(value) == value.scheme \in { "http", "https" }

FullIOC(v, ty, s, tt, tags, fs) ==
    [value |-> v, type |-> ty, source |-> s, threat_type |-> tt, tags |-> tags,
     version |-> "", first_seen |-> fs]

Component(host, ty, tag, sourceIOC) ==
    FullIOC(UrlValue("", host, ""), ty, sourceIOC.source, sourceIOC.threat_type,
            << tag >> \o sourceIOC.tags, sourceIOC.first_seen)

\* ExtractIOCComponents(value, sourceIOC): the original, then the host of an
\* http(s) URL as an ip or a domain, then, for a value that does not start
\* with "http", the first of its ':', '/', '?' separated parts that is an IP.
ExtractIOCComponents(value, sourceIOC) ==
    LET fromUrl ==
            IF HasHttpPrefix(value) /\ value.host # ""
            THEN << Component(value.host, IF ParseIP(value.host) THEN "ip" ELSE "domain",
                              "extracted-from-url", sourceIOC) >>
            ELSE << >>
        fromValue ==
            IF ~HasHttpPrefix(value) /\ ParseIP(value.host)
                 /\ (value.scheme # "" \/ value.rest # "")
            THEN << Component(value.host, "ip", "extracted-from-value", sourceIOC) >>
            ELSE << >>
    IN << sourceIOC >> \o fromUrl \o fromValue

UrlProviders == { "abusech-urlhaus", "alienvault-otx" }

\* What a feed lists: a URL and the time it was first seen.
FeedEntries == { [url |-> u, seen |-> t] : u \in FeedUrls, t \in { 1, 2 } }

\* FetchIOCS of provider p on a feed.
RECURSIVE FetchedIOCs(_, _)
FetchedIOCs(p, entries) ==
    IF entries = << >> THEN << >>
    ELSE LET e == Head(entries)
             base == FullIOC(e.url, "url", p, "malware_download", << >>, e.seen)
         IN (IF p = "abusech-urlhaus" THEN ExtractIOCComponents(e.url, base) ELSE << base >>)
            \o FetchedIOCs(p, Tail(entries))

ExtractInit ==
    /\ xfetched = { }
    /\ xqueue = << >>
    /\ xpc = "run"

\* A provider's fetch returns and its iocs are sent to the channel.
FetchUrls(p) ==
    /\ xpc = "run"
    /\ p \notin xfetched
    /\ \E entries \in SeqsUpTo(FeedEntries, 1) :
          xqueue' = xqueue \o FetchedIOCs(p, entries)
    /\ xfetched' = xfetched \cup { p }
    /\ UNCHANGED << xpc, catalog >>
    /\ UNCHANGED notExtract

\* The consumer flushes: the next iocs, up to the batch size, go to
\* SaveBatch, which stores them or fails.
SaveUrls ==
    /\ xpc = "run"
    /\ xqueue # << >>
    /\ \E n \in 1..Min(BatchSize, Len(xqueue)), failAt \in 0..1 :
          /\ catalog' = SaveBatchCall(catalog, SubSeq(xqueue, 1, n), failAt).rows
          /\ xqueue' = SubSeq(xqueue, n + 1, Len(xqueue))
    /\ UNCHANGED << xfetched, xpc >>
    /\ UNCHANGED notExtract

\* Every provider has returned and everything fetched was flushed.
RunEnds ==
    /\ xpc = "run"
    /\ xfetched = UrlProviders
    /\ xqueue = << >>
    /\ xpc' = "done"
    /\ UNCHANGED << xfetched, xqueue, catalog >>
    /\ UNCHANGED notExtract

NextExtract ==
    \/ \E p \in UrlProviders : FetchUrls(p)
    \/ SaveUrls
    \/ RunEnds

MaxFieldLen == 2

(***************************************************************************)
(* The CEF export.  A text is the sequence of its characters; in a line,   *)
(* a run of literal letters and digits that holds no separator is kept     *)
(* as one element.                                                         *)
(***************************************************************************)
FieldChars == { "a", "n", ",", "=", "\\", "|", "\n", " " }

Texts == SeqsUpTo(FieldChars, MaxFieldLen)

\* strings.ReplaceAll(s, old, new) for a one-character old.
RECURSIVE ReplaceAll(_, _, _)
ReplaceAll(s, old, new) ==
    IF s = << >> THEN << >>
    ELSE (IF Head(s) = old THEN new ELSE << Head(s) >>) \o ReplaceAll(Tail(s), old, new)

escapeField(s) ==
    LET s1 == ReplaceAll(s, "\\", << "\\", "\\" >>)
        s2 == ReplaceAll(s1, "|", << "\\", "|" >>)
        s3 == ReplaceAll(s2, "=", << "\\", "=" >>)
        s4 == ReplaceAll(s3, "\n", << "\\", "n" >>)
    IN ReplaceAll(s4, "\r", << "\\", "r" >>)

\* strings.Join(elems, sep)
RECURSIVE Join(_, _)
Join(elems, sep) ==
    IF elems = << >> THEN << >>
    ELSE IF Len(elems) = 1 THEN elems[1]
    ELSE elems[1] \o << sep >> \o Join(Tail(elems), sep)

\* strings.ToUpper on the values of domain.IOCType
ToUpper(t) == IF t = "ip" THEN "IP" ELSE IF t = "url" THEN "URL" ELSE t

calculateSeverity(confidence) ==
    IF confidence >= 90 THEN 10
    ELSE IF confidence >= 80 THEN 8
    ELSE IF confidence >= 70 THEN 6
    ELSE IF confidence >= 60 THEN 4
    ELSE 2

\* calculateConfidence(ioc), on the fields Export copies into the entry.
calculateConfidence(source, threatType, tags) ==
    LET c1 == 70 + (IF source \in { << "alienvault-otx" >>, << "abusech-urlhaus" >> } THEN 10 ELSE 0)
        c2 == c1 + (IF threatType \in { << "malware_download" >>, << "c2_server" >> } THEN 5 ELSE 0)
        c3 == c2 + (IF Len(tags) > 3 THEN 5 ELSE 0)
    IN IF c3 > 100 THEN 100 ELSE c3

\* time.Time: whole seconds and the fraction of a second.
Times == { [sec |-> s, nsec |-> n] : s \in { 1, 2 }, n \in { 0, 500 } }

\* The rows Export reads, as the CEFEntry it builds from each; values are
\* the contents ioc.Value ranges over.
CEFEntries(values) ==
    { [Value |-> v, Type |-> ty, ThreatType |-> tt, Sources |-> << src >>, Tags |-> tags,
       Confidence |-> calculateConfidence(src, tt, tags), FirstSeen |-> t] :
        v \in values, ty \in { "ip", "url" },
        tt \in { << >>, << "c2_server" >>, << "=" >>, << "\\" >> },
        src \in { << "abusech-urlhaus" >> },
        tags \in SeqsUpTo({ << >>, << "a" >>, << "," >>, << "\\" >> }, 2),
        t \in Times }

formatCEF(ioc) ==
    LET extensions ==
            << << "src", "=" >> \o escapeField(ioc.Value),
               << "cn1Label", "=", "ConfidenceScore" >>,
               << "cn1", "=", ToString(ioc.Confidence) >>,
               << "cs1Label", "=", "ThreatType" >>,
               << "cs1", "=" >> \o escapeField(ioc.ThreatType),
               << "cs2Label", "=", "Sources" >>,
               << "cs2", "=" >> \o escapeField(Join(ioc.Sources, ",")),
               << "cs3Label", "=", "Tags" >>,
               << "cs3", "=" >> \o escapeField(Join(ioc.Tags, ",")),
               << "rt", "=", ToString(ioc.FirstSeen.sec * 1000) >> >>
    IN << "CEF:0", "|", "Watchtower", "|", "ThreatIntel", "|", "1.0", "|",
          ioc.Type, "|", ToUpper(ioc.Type), " ", "IOC", " ", "Detected", "|",
          ToString(calculateSeverity(ioc.Confidence)), "|" >>
       \o Join(extensions, " ")

(***************************************************************************)
(* Reading a line back by the escape rule: a separator counts when an even *)
(* number of backslashes stands before it.                                 *)
(***************************************************************************)
RECURSIVE BackslashesBefore(_, _)
BackslashesBefore(line, i) ==
    IF i > 1 /\ line[i - 1] = "\\" THEN 1 + BackslashesBefore(line, i - 1) ELSE 0

Unescaped(line, c) ==
    { i \in 1..Len(line) : line[i] = c /\ BackslashesBefore(line, i) % 2 = 0 }

Nth(S, n) == CHOOSE x \in S : Cardinality({ y \in S : y < x }) = n - 1

RECURSIVE unescapeField(_)
unescapeField(s) ==
    IF s = << >> THEN << >>
    ELSE IF Head(s) = "\\" /\ Len(s) >= 2
         THEN << IF s[2] = "n" THEN "\n" ELSE IF s[2] = "r" THEN "\r" ELSE s[2] >>
              \o unescapeField(SubSeq(s, 3, Len(s)))
         ELSE << Head(s) >> \o unescapeField(Tail(s))

\* strings.Split(s, sep)
RECURSIVE Split(_, _)
Split(s, sep) ==
    IF \A i \in 1..Len(s) : s[i] # sep THEN << s >>
    ELSE LET i == CHOOSE k \in 1..Len(s) : s[k] = sep /\ \A j \in 1..(k - 1) : s[j] # sep
         IN << SubSeq(s, 1, i - 1) >> \o Split(SubSeq(s, i + 1, Len(s)), sep)

SplitList(s) == IF s = << >> THEN << >> ELSE Split(s, ",")

decodeCEF(line) ==
    LET pipes == Unescaped(line, "|")
        start == Nth(pipes, 7)
        eqs   == { i \in Unescaped(line, "=") : i > start }
        Field(key) ==
            LET i == CHOOSE k \in eqs : line[k - 1] = key
                later == { k \in eqs : k > i }
                last == IF later = { } THEN Len(line) ELSE Nth(later, 1) - 3
            IN SubSeq(line, i + 1, last)
        ms == CHOOSE n \in { t.sec * 1000 : t \in Times } : << ToString(n) >> = Field("rt")
    IN [Value |-> unescapeField(Field("src")),
        Type |-> line[Nth(pipes, 4) + 1],
        ThreatType |-> unescapeField(Field("cs1")),
        Sources |-> SplitList(unescapeField(Field("cs2"))),
        Tags |-> SplitList(unescapeField(Field("cs3"))),
        FirstSeen |-> [sec |-> ms \div 1000, nsec |-> 0]]

\* The fields of the row a line is written from.
SourceFields(ioc) ==
    [Value |-> ioc.Value, Type |-> ioc.Type, ThreatType |-> ioc.ThreatType,
     Sources |-> ioc.Sources, Tags |-> ioc.Tags, FirstSeen |-> ioc.FirstSeen]

NoEntry == [Value |-> << >>, Type |-> "", ThreatType |-> << >>, Sources |-> << >>,
            Tags |-> << >>, Confidence |-> 0, FirstSeen |-> [sec |-> 0, nsec |-> 0]]

CefInit ==
    /\ epc = "idle"
    /\ eentry = NoEntry
    /\ eline = << >>

\* Export: one row of FindSince is formatted.
FormatLine ==
    /\ epc = "idle"
    /\ \E ioc \in CEFEntries(Texts) :
          /\ eentry' = ioc
          /\ eline' = formatCEF(ioc)
    /\ epc' = "done"
    /\ UNCHANGED notCef

LineWritten ==
    /\ epc = "done"
    /\ epc' = "idle"
    /\ eentry' = NoEntry
    /\ eline' = << >>
    /\ UNCHANGED notCef

NextCef ==
    \/ FormatLine
    \/ LineWritten

(***************************************************************************)
(* One repo.SaveBatch(ctx, batch) of the coordinator, with ctx the context *)
(* of context.WithTimeout: r.db.SendBatch(ctx, batch) and br.Exec() run    *)
(* under that context.  pgx watches the context of a running batch: when   *)
(* it is done the connection is interrupted and Exec returns the context's *)
(* error; the implicit transaction is rolled back unless the server had    *)
(* already committed it.                                                   *)
(***************************************************************************)
InflightInit ==
    /\ ipc = "idle"
    /\ ibatch = << >>
    /\ ifired = "no"
    /\ iret = "none"

\* ctx.Done() is closed: the 10 minutes are over.
DeadlineFires ==
    /\ ifired = "no"
    /\ ipc # "returned"
    /\ ifired' = IF ipc = "sent" THEN "during" ELSE "before"
    /\ UNCHANGED << ipc, ibatch, iret, catalog >>
    /\ UNCHANGED notInflight

\* The coordinator flushes: batch.Queue for each ioc, r.db.SendBatch(ctx, batch).
\* With the context already done nothing is sent and Exec returns its error.
SaveBatchSent ==
    /\ ipc = "idle"
    /\ \E b \in Batches : ibatch' = b
    /\ IF ifired = "no"
       THEN ipc' = "sent" /\ iret' = "none"
       ELSE ipc' = "returned" /\ iret' = "context canceled"
    /\ UNCHANGED << ifired, catalog >>
    /\ UNCHANGED notInflight

\* The server ran every statement and committed; br.Exec() returns nil, or,
\* when the context was done before the reply was read, the context's error.
SaveBatchCommits ==
    /\ ipc = "sent"
    /\ catalog' = InsertAll(catalog, ibatch)
    /\ \E r \in (IF ifired = "during" THEN { "ok", "context canceled" } ELSE { "ok" }) :
          iret' = r
    /\ ipc' = "returned"
    /\ UNCHANGED << ibatch, ifired >>
    /\ UNCHANGED notInflight

\* A statement fails: nothing of the batch is stored.
SaveBatchFails ==
    /\ ipc = "sent"
    /\ iret' = "exec error"
    /\ ipc' = "returned"
    /\ UNCHANGED << ibatch, ifired, catalog >>
    /\ UNCHANGED notInflight

\* The context is done while the batch runs: the call is interrupted and
\* nothing of the batch is stored.
SaveBatchInterrupted ==
    /\ ipc = "sent"
    /\ ifired = "during"
    /\ iret' = "context canceled"
    /\ ipc' = "returned"
    /\ UNCHANGED << ibatch, ifired, catalog >>
    /\ UNCHANGED notInflight

\* The coordinator logs the outcome and sets batch = nil; the loop goes on
\* until the channel is closed.
SaveBatchReturned ==
    /\ ipc = "returned"
    /\ ipc' = "idle"
    /\ ibatch' = << >>
    /\ iret' = "none"
    /\ UNCHANGED << ifired, catalog >>
    /\ UNCHANGED notInflight

NextInflight ==
    \/ DeadlineFires
    \/ SaveBatchSent
    \/ SaveBatchCommits
    \/ SaveBatchFails
    \/ SaveBatchInterrupted
    \/ SaveBatchReturned

Init ==
    /\ IngestInit /\ WriterInit /\ BreakerInit /\ TriageInit /\ RetryInit /\ HookInit
    /\ GuardInit /\ CheckInit /\ SearchInit /\ AuthInit /\ ExtractInit /\ CefInit /\ InflightInit
    /\ catalog = << >>
    /\ tenabled = TRUE
    /\ hnotifier = TRUE
    /\ htriager = TRUE
    /\ asecret = "s3cret"

\* The triager is enabled or not by LLM_TRIAGE_ENABLED and the API key.
InitTriage ==
    /\ IngestInit /\ WriterInit /\ BreakerInit /\ TriageInit /\ RetryInit /\ HookInit
    /\ GuardInit /\ CheckInit /\ SearchInit /\ AuthInit /\ ExtractInit /\ CefInit /\ InflightInit
    /\ catalog = << >>
    /\ tenabled \in BOOLEAN
    /\ hnotifier = TRUE
    /\ htriager = TRUE
    /\ asecret = "s3cret"

\* NewRestHandler is given a notifier or nil, a triager or nil, and the
\* triager is enabled or not.
InitWebhook ==
    /\ IngestInit /\ WriterInit /\ BreakerInit /\ TriageInit /\ RetryInit /\ HookInit
    /\ GuardInit /\ CheckInit /\ SearchInit /\ AuthInit /\ ExtractInit /\ CefInit /\ InflightInit
    /\ catalog = << >>
    /\ tenabled \in BOOLEAN
    /\ hnotifier \in BOOLEAN
    /\ htriager \in BOOLEAN
    /\ asecret = "s3cret"

\* The check endpoints run over a catalog that ingestion has filled.
InitCheck ==
    /\ IngestInit /\ WriterInit /\ BreakerInit /\ TriageInit /\ RetryInit /\ HookInit
    /\ GuardInit /\ CheckInit /\ SearchInit /\ AuthInit /\ ExtractInit /\ CefInit /\ InflightInit
    /\ catalog \in SavedCatalogs
    /\ tenabled = TRUE
    /\ hnotifier = TRUE
    /\ htriager = TRUE
    /\ asecret = "s3cret"

\* Searches run over a catalog of package and URL sightings.
InitSearch ==
    /\ IngestInit /\ WriterInit /\ BreakerInit /\ TriageInit /\ RetryInit /\ HookInit
    /\ GuardInit /\ CheckInit /\ SearchInit /\ AuthInit /\ ExtractInit /\ CefInit /\ InflightInit
    /\ catalog \in SearchCatalogs
    /\ tenabled = TRUE
    /\ hnotifier = TRUE
    /\ htriager = TRUE
    /\ asecret = "s3cret"

\* The server runs with REST_API_AUTH_TOKEN set or not.
InitAuth ==
    /\ IngestInit /\ WriterInit /\ BreakerInit /\ TriageInit /\ RetryInit /\ HookInit
    /\ GuardInit /\ CheckInit /\ SearchInit /\ AuthInit /\ ExtractInit /\ CefInit /\ InflightInit
    /\ catalog = << >>
    /\ tenabled = TRUE
    /\ hnotifier = TRUE
    /\ htriager = TRUE
    /\ asecret \in Secrets

vars == << ingestVars, catalog, writerVars, breakerVars, triageVars, retryVars, hookVars, guardVars, checkVars, searchVars, authVars, extractVars, cefVars, inflightVars >>

NextIngest ==
    \/ Deadline
    \/ \E p \in Providers : Fetch(p)
    \/ \E p \in Providers : SendItem(p)
    \/ \E p \in Providers : AbandonSend(p)
    \/ CloseChannel
    \/ Receive
    \/ ReceiveClosed
    \/ Tick
    \/ FinalFlush

Next == NextIngest \/ NextRepo \/ NextBreaker \/ NextTriage \/ NextRetry \/ NextHook
            \/ NextGuard \/ NextCheck \/ NextSearch \/ NextAuth
            \/ NextExtract \/ NextCef \/ NextInflight

Spec == Init /\ [][Next]_vars

SpecTriage == InitTriage /\ [][NextTriage]_vars

SpecWebhook == InitWebhook /\ [][NextHook]_vars

SpecPostFilter == Init /\ [][NextGuard]_vars

SpecCheck == InitCheck /\ [][NextCheck]_vars

SpecSearch == InitSearch /\ [][NextSearch]_vars

SpecAuth == InitAuth /\ [][NextAuth]_vars

SpecExtract == Init /\ [][NextExtract]_vars

SpecCef == Init /\ [][NextCef]_vars

SpecInflight == Init /\ [][NextInflight]_vars

SpecRetry == Init /\ [][NextRetry]_vars

SpecBreaker == Init /\ [][NextBreaker]_vars

SpecRepo == Init /\ [][NextRepo]_vars

SpecIngest == Init /\ [][NextIngest]_vars

\* Every goroutine that can run is scheduled, and a select whose case stays
\* ready is eventually taken through that case or another.
IngestFairness ==
    /\ \A p \in Providers : WF_vars(Fetch(p))
    /\ \A p \in Providers : WF_vars(SendItem(p) \/ AbandonSend(p))
    /\ WF_vars(CloseChannel)
    /\ WF_vars(Receive)
    /\ WF_vars(ReceiveClosed)
    /\ WF_vars(FinalFlush)

SpecIngestFair == SpecIngest /\ IngestFairness

\* time.NewTicker(5 * time.Second): while the consumer is in its loop a tick
\* keeps coming, and the statement after the loop is run.
TickerFairness == WF_vars(Tick) /\ WF_vars(FinalFlush)

SpecIngestTicker == SpecIngest /\ TickerFairness

(***************************************************************************)
(* Helpers for the properties.                                             *)
(***************************************************************************)
RECURSIVE Flatten(_)
Flatten(seqs) == IF seqs = << >> THEN << >> ELSE Head(seqs) \o Flatten(Tail(seqs))

Count(x, seq) == Cardinality({ i \in 1..Len(seq) : seq[i] = x })

IsPrefix(a, b) == Len(a) <= Len(b) /\ SubSeq(b, 1, Len(a)) = a

FetchedAll == Flatten([p \in Providers |-> fetched[p]])

FeedIOCs == UNION { { Feed(p)[i] : i \in 1..Len(Feed(p)) } : p \in Providers }

(***************************************************************************)
(* C1: in a run whose deadline did not fire, when the coordinator exits    *)
(* every IOC returned by a successful fetch has been handed to SaveBatch   *)
(* in exactly one call: it occurs in the batches of all calls together as  *)
(* often as the fetches returned it, neither less nor more.                *)
(***************************************************************************)
C1_EveryIocSavedExactlyOnce ==
    (mpc = "exit" /\ ~ctxDone) =>
        \A x \in FeedIOCs : Count(x, Flatten(saveCalls)) = Count(x, FetchedAll)

C1_Witness ==
    /\ mpc = "exit"
    /\ ~ctxDone
    /\ \A p \in Providers : fetchOk[p] /\ Len(fetched[p]) = MaxFetch
    /\ Len(saveCalls) >= 2

(***************************************************************************)
(* C7: no two catalog rows share the same (value, source, version).        *)
(***************************************************************************)
C7_UniqueKey ==
    \A i, j \in 1..Len(catalog) : i # j => Key(catalog[i]) # Key(catalog[j])

\* Both keys are stored, one writer has returned and another, running
\* beside it, has had its first statement dropped on a conflict.
C7_Witness ==
    /\ Len(catalog) >= 2
    /\ \E w \in Writers : wret[w] = "ok" /\ wpc[w] = "idle"
    /\ \E w \in Writers : wpc[w] = "exec" /\ widx[w] > 1 /\ wpending[w] = << >>

(***************************************************************************)
(* C8: SaveBatch never changes an existing row.  Whatever the batch and    *)
(* whichever statement fails, the rows already stored stay as they are and *)
(* in place, every row a call adds has a key that was not stored, and      *)
(* saving a stored batch again changes nothing; and every step of          *)
(* concurrent callers only extends the catalog.                            *)
(***************************************************************************)
C8_CallKeepsRows ==
    \A b \in Batches :
        LET once == SaveBatchCall(catalog, b, 0).rows IN
        /\ IsPrefix(catalog, once)
        /\ \A i \in (Len(catalog) + 1)..Len(once) : ~KeyIn(catalog, once[i])
        /\ \A i \in 1..Len(b) : KeyIn(once, b[i])
        /\ \A f \in 0..Len(b) : SaveBatchCall(once, b, f).rows = once
        /\ \A f \in 1..Len(b) : SaveBatchCall(catalog, b, f).rows = catalog

C8_ExistingRowsNeverChange ==
    [](C8_CallKeepsRows) /\ [][IsPrefix(catalog, catalog')]_vars

C8_Witness ==
    /\ Len(catalog) >= 2
    /\ \E w \in Writers :
          /\ wpc[w] = "exec"
          /\ widx[w] = Len(wbatch[w])
          /\ \A i \in 1..Len(wbatch[w]) : KeyIn(catalog, wbatch[w][i])
          /\ \E i \in 1..Len(wbatch[w]) : wbatch[w][i] \notin { catalog[j] : j \in 1..Len(catalog) }

(***************************************************************************)
(* C9: a SaveBatch call of which some statement failed returns an error.   *)
(***************************************************************************)
C9_FailureIsReturned ==
    \A w \in Writers : (wpc[w] = "idle" /\ wfailedAt[w] # 0) => wret[w] = "err"

(***************************************************************************)
(* C10: the coordinator terminates: the consumer reaches the end of main,  *)
(* and a producer that is in its send loop once the deadline has fired     *)
(* leaves it.                                                              *)
(***************************************************************************)
C10_CoordinatorTerminates ==
    /\ <>(mpc = "exit")
    /\ \A p \in Providers : (ctxDone /\ ppc[p] = "send") ~> (ppc[p] = "done")

C10_Witness ==
    /\ mpc = "exit"
    /\ ctxDone
    /\ closed
    /\ \E p \in Providers : fetchOk[p] /\ sidx[p] <= Len(fetched[p]) /\ ppc[p] = "done"

(***************************************************************************)
(* C2, as stated: while the breaker is half-open at most one HTTP exchange *)
(* of the client is open.                                                  *)
(***************************************************************************)
C2_OneRequestInFlight ==
    cbState = "half-open" => Cardinality({ c \in Callers : cpc[c] = "attempt" }) <= 1

(***************************************************************************)
(* C2, amended: while the breaker is half-open at most one call admitted   *)
(* in the half-open state (the probe) is inside the client, so at most one *)
(* probe exchange is open; a call admitted while the breaker was closed    *)
(* may still be in flight beside it.                                       *)
(***************************************************************************)
C2_OneProbeInFlight ==
    cbState = "half-open" =>
        Cardinality({ c \in Callers : cpc[c] # "idle" /\ cadmit[c] = "half-open" }) <= 1

C2_Witness ==
    /\ cbState = "half-open"
    /\ \E c, o \in Callers :
          /\ cpc[c] = "attempt" /\ cadmit[c] = "half-open"
          /\ cpc[o] = "idle" /\ lastErr[o] = "ErrTooManyRequests" /\ attempts[o] = 0

(***************************************************************************)
(* C3: every change of the breaker's state is closed -> open, open ->      *)
(* half-open, half-open -> closed or half-open -> open.  It leaves closed  *)
(* on the failed call that brings the consecutive failures to MaxFailures, *)
(* and on every such call; it leaves open only once the timeout has        *)
(* passed; it leaves half-open when the probe returns: for closed if the   *)
(* probe succeeded, for open if it failed.                                 *)
(***************************************************************************)
Returns(c) == cpc[c] = "attempt" /\ cpc'[c] = "idle"

C3_LegalStep ==
    /\ (cbState = "closed" /\ cbState' # "closed") =>
          /\ cbState' = "open"
          /\ cbCounts.ConsecutiveFailures + 1 = MaxFailures
          /\ \E c \in Callers : Returns(c) /\ cgenOk[c] /\ lastErr'[c] = "failed"
    /\ (cbState = "closed" /\ cbCounts.ConsecutiveFailures + 1 >= MaxFailures
          /\ \E c \in Callers : Returns(c) /\ cgenOk[c] /\ lastErr'[c] = "failed") =>
          cbState' = "open"
    /\ (cbState = "closed") => cbCounts.ConsecutiveFailures < MaxFailures
    /\ (cbState = "open" /\ cbState' # "open") =>
          /\ cbState' = "half-open"
          /\ Expired
    /\ (cbState = "half-open" /\ cbState' # "half-open") =>
          \E c \in Callers :
             /\ Returns(c) /\ cadmit[c] = "half-open"
             /\ \/ cbState' = "closed" /\ lastErr'[c] = "ok"
                \/ cbState' = "open" /\ lastErr'[c] = "failed"
    /\ \A c \in Callers :
          (cbState = "half-open" /\ Returns(c) /\ cadmit[c] = "half-open") =>
             cbState' = IF lastErr'[c] = "ok" THEN "closed" ELSE "open"

C4_RejectedStep ==
    \A c \in Callers :
        (cbState = "open" /\ ~Expired /\ Call(c)) =>
            /\ lastErr'[c] = "circuit_open"
            /\ attempts'[c] = 0
            /\ cpc'[c] = "idle"
            /\ cbState' = "open"

C4_OpenRejects == [][C4_RejectedStep]_vars

C4_Witness ==
    /\ cbState = "open"
    /\ ~Expired
    /\ cbElapsed > 0
    /\ \E c \in Callers : lastErr[c] = "circuit_open" /\ attempts[c] = 0 /\ cpc[c] = "idle"


(***************************************************************************)
(* C5: every result Triage returns, from the pre-filter or from the LLM    *)
(* followed by the post-filter, has a severity of the enum, a priority in  *)
(* 1..5, a confidence in 0..100, a priority within 1 of the severity's     *)
(* canonical priority, and, when it is a false positive, a confidence of   *)
(* at least 85.                                                            *)
(***************************************************************************)
Returned == tpc = "returned" /\ tres.err = "none"

C5_ResultWellFormed ==
    Returned =>
        LET r == tres.result IN
        /\ r.Severity \in ValidSeverities
        /\ r.Priority \in 1..5
        /\ r.Confidence \in 0..100
        /\ Abs(r.Priority - severityToPriority(r.Severity)) <= 1
        /\ r.FalsePositive => r.Confidence >= 85

\* The post-filter returned a false positive the LLM reported with enough
\* confidence, for an alert with an indicator of no known-good value.
C5_Witness ==
    /\ Returned
    /\ llmCalled
    /\ tres.result.FalsePositive
    /\ tres.result.Confidence >= 85
    /\ Len(threat) > 0

(***************************************************************************)
(* C6: every result Triage returns with false_positive = true comes from   *)
(* an alert none of whose enriched indicators has in_database = true.      *)
(***************************************************************************)
C6_FalsePositiveHasNoIntel ==
    (Returned /\ tres.result.FalsePositive) =>
        \A i \in 1..Len(threat) : ~threat[i].InDatabase

(***************************************************************************)
(* C11, as stated: when a provider's fetch has failed, the coordinator     *)
(* still finishes, the failing provider contributes no item, every other   *)
(* producer sends all it fetched and every item the other providers        *)
(* returned is handed to SaveBatch.                                        *)
(***************************************************************************)
FetchFailed(p) == ppc[p] = "done" /\ ~fetchOk[p]

OthersDelivered ==
    /\ \A p \in Providers : FetchFailed(p) => fetched[p] = << >>
    /\ \A p \in Providers : fetchOk[p] => sidx[p] = Len(fetched[p]) + 1
    /\ \A x \in FeedIOCs : Count(x, Flatten(saveCalls)) = Count(x, FetchedAll)

C11_FailedFeedLosesNothing ==
    /\ []((mpc = "exit" /\ \E p \in Providers : FetchFailed(p)) => OthersDelivered)
    /\ \A p \in Providers : FetchFailed(p) ~> (mpc = "exit")

(***************************************************************************)
(* C11, amended: the same in a run whose deadline does not fire.  (When    *)
(* the deadline fires a producer abandons what it has not sent, failing    *)
(* feed or not; the coordinator finishes either way.)                      *)
(***************************************************************************)
C11_FailedFeedStopsNoOther ==
    /\ []((mpc = "exit" /\ ~ctxDone /\ \E p \in Providers : FetchFailed(p)) => OthersDelivered)
    /\ \A p \in Providers : FetchFailed(p) ~> (mpc = "exit")

C11_Witness ==
    /\ mpc = "exit"
    /\ ~ctxDone
    /\ \E p, q \in Providers :
          /\ FetchFailed(p)
          /\ fetchOk[q] /\ Len(fetched[q]) = MaxFetch
    /\ Len(saveCalls) >= 1

(***************************************************************************)
(* C12: a SaveBatch call that fails drops its batch.  On the step of a     *)
(* failed call inside the loop the buffer becomes empty and the consumer   *)
(* stays in the loop (after a failed final flush main ends); no item is    *)
(* ever handed to SaveBatch more often than it was fetched; and totalSaved *)
(* counts exactly the batches whose call succeeded, whatever failed before *)
(* them.                                                                   *)
(***************************************************************************)
SaveFailedStep ==
    /\ Len(saveErrs') = Len(saveErrs) + 1
    /\ saveErrs'[Len(saveErrs')]

RECURSIVE SavedLen(_)
SavedLen(n) ==
    IF n = 0 THEN 0
    ELSE SavedLen(n - 1) + (IF saveErrs[n] THEN 0 ELSE Len(saveCalls[n]))

C12_DropStep ==
    SaveFailedStep =>
        /\ mpc = "loop" => (batch' = << >> /\ mpc' = "loop")
        /\ mpc = "final" => mpc' = "exit"
        /\ totalSaved' = totalSaved
        /\ \/ iocChannel' = iocChannel
           \/ iocChannel # << >> /\ iocChannel' = Tail(iocChannel)

C12_FailedBatchDropped ==
    /\ [][C12_DropStep]_vars
    /\ [](\A x \in FeedIOCs : Count(x, Flatten(saveCalls)) <= Count(x, FetchedAll))
    /\ [](totalSaved = SavedLen(Len(saveCalls)))

\* A batch failed, its items were not handed over again, and the next batch
\* was saved and counted.
C12_Witness ==
    /\ Len(saveCalls) >= 2
    /\ saveErrs[1]
    /\ ~saveErrs[2]
    /\ totalSaved = Len(saveCalls[2])
    /\ \A i \in 1..Len(saveCalls[2]) : KeyIn(catalog, saveCalls[2][i])
    /\ ~ctxDone

(***************************************************************************)
(* C13, as stated: every call the breaker admitted is recorded as one      *)
(* success or one failure when it returns, whatever the number of its      *)
(* attempts, and no attempt is recorded on its own.                        *)
(***************************************************************************)
RecordedOnce(c) ==
    LET success == lastErr'[c] = "ok"
        next == AfterState(CurrentState, CurrentCounts, success)
    IN
    /\ cbState' = next
    /\ cbCounts' = IF next # CurrentState THEN ZeroCounts
                   ELSE AfterCounts(CurrentState, CurrentCounts, success)

AttemptStep(c) ==
    \/ cpc[c] = "attempt" /\ cpc'[c] = "backoff"
    \/ cpc[c] = "backoff" /\ cpc'[c] = "attempt"

C13_EveryCallStep ==
    \A c \in Callers :
        /\ Returns(c) => RecordedOnce(c)
        /\ AttemptStep(c) => (cbCounts' = cbCounts /\ cbState' = cbState)

C13_EveryCallCountsOnce == [][C13_EveryCallStep]_vars

(***************************************************************************)
(* C13, amended: a call the breaker admitted is recorded at most once,     *)
(* whatever the number of its attempts: as one success or one failure when *)
(* it returns, if the breaker has not changed state since it admitted the  *)
(* call, and not at all if it has; no attempt is recorded on its own.      *)
(***************************************************************************)
C13_CurrentCallStep ==
    \A c \in Callers :
        /\ Returns(c) =>
              IF cgenOk[c] /\ CurrentState = cbState
              THEN RecordedOnce(c)
              ELSE cbState' = CurrentState /\ cbCounts' = CurrentCounts
        /\ AttemptStep(c) => (cbCounts' = cbCounts /\ cbState' = cbState)

C13_CallCountsAtMostOnce == [][C13_CurrentCallStep]_vars

\* A call that used all its retries has returned, the breaker is closed and
\* holds one failure.
C13_Witness ==
    /\ cbState = "closed"
    /\ cbCounts.ConsecutiveFailures = 1
    /\ \E c \in Callers :
          cpc[c] = "idle" /\ lastErr[c] = "failed" /\ attempts[c] = MaxRetries + 1

(***************************************************************************)
(* C14, as stated: a call that has returned made between 1 and R+1         *)
(* attempts; every attempt but the last ended in a retryable outcome       *)
(* (429, 500, 502, 503, 504, connection refused/reset, EOF, deadline); and *)
(* if the last one did too, the call made exactly R+1 attempts.            *)
(***************************************************************************)
RetryableOutcomes ==
    { "429", "500", "502", "503", "504",
      "connection refused", "connection reset", "EOF", "deadline exceeded" }

AttemptsAsClassified ==
    /\ Len(routs) \in 1..(rmax + 1)
    /\ \A i \in 1..(Len(routs) - 1) : routs[i] \in RetryableOutcomes
    /\ routs[Len(routs)] \in RetryableOutcomes => Len(routs) = rmax + 1

C14_AttemptsByOutcome == rpc = "returned" => AttemptsAsClassified

(***************************************************************************)
(* C14, amended: the same for a call whose request context was not done    *)
(* when it returned.  (A context that is done ends the call at once, also  *)
(* after a retryable outcome and with retries left.)                       *)
(***************************************************************************)
C14_AttemptsWhileContextLive ==
    /\ (rpc = "returned" /\ rctx = "live") => AttemptsAsClassified
    /\ rpc = "returned" => Len(routs) \in 1..(rmax + 1)
    /\ rpc = "backoff" => Len(routs) \in 1..rmax

\* R+1 attempts, all retryable, of more than one kind.
C14_Witness ==
    /\ rpc = "returned"
    /\ rctx = "live"
    /\ rmax = MaxRetries
    /\ Len(routs) = MaxRetries + 1
    /\ \A i \in 1..Len(routs) : routs[i] \in RetryableOutcomes
    /\ routs[1] = "503" /\ routs[2] = "connection refused"
    /\ rret = "err"

(***************************************************************************)
(* C15: every attempt of a call hands c.client.Do the same request body as *)
(* the first attempt did.                                                  *)
(***************************************************************************)
C15_SameBodyEveryAttempt == \A i \in 1..Len(rsent) : rsent[i] = rsent[1]

(***************************************************************************)
(* C16: once the request's context is done, no further request is put on   *)
(* the wire, a call waiting between attempts or inside an attempt returns  *)
(* with an error, and it returns without waiting for the timer.            *)
(***************************************************************************)
C16_AfterContextDoneStep ==
    (rctx # "live" /\ rpc # "returned") =>
        /\ rwire' = rwire
        /\ (rpc \in { "attempt", "backoff" } /\ rpc' = "returned") => rret' = "err"
        /\ rpc' # "backoff"

C17_PreFilterSkipsLLM ==
    (tpc = "returned" /\ tenabled /\ ApplyPreLLMGuardrails(threat).skip)
        => /\ tres = [err |-> "none", result |-> ApplyPreLLMGuardrails(threat).result]
           /\ ~llmCalled

\* Triage returned on a known-bad alert of two indicators.
C17_Witness ==
    /\ tpc = "returned"
    /\ tenabled
    /\ Len(threat) = 2
    /\ ~PreAllKnownGood(threat)
    /\ hasHighRiskTypes(threat)
    /\ tres.result.Severity = "high"
    /\ ~llmCalled

\* The request is answered and its body was decoded.
Answered == hpc = "done" /\ DecodeOk(hbody)

LikelyFalsePositive ==
    Triaged /\ htriage.result.FalsePositive /\ htriage.result.Confidence >= 80

C19_BadRequestOnlyForUnparseableJSON ==
    hpc = "done" =>
        /\ hresp.code = 400 => hbody.syntax = "invalid"
        /\ hbody.syntax = "valid" => (hresp.code = 200 /\ hresp.envelope)

\* C19: the webhook answers 400 exactly when the body does not decode into
\* the alert payload (it is not JSON, or a member has a JSON type the payload
\* does not take); in every other case, whatever the catalog, the LLM and the
\* notifier did, it answers 200 with the status envelope.
C19_BadRequestOnlyWhenDecodeFails ==
    hpc = "done" =>
        /\ hresp.code \in { 200, 400 }
        /\ hresp.code = 400 <=> (hbody.syntax = "invalid" \/ hbody.alertId # "string")
        /\ hresp.code = 200 => hresp.envelope

\* 200 after a catalog failure, an LLM failure and a notifier failure.
C19_Witness ==
    /\ hpc = "done"
    /\ hresp.code = 200
    /\ hresp.envelope
    /\ InSeq("exact-failed", hlookups)
    /\ htriage.called
    /\ htriage.err # "none"
    /\ Len(hnotify) = 1
    /\ hnotify[1].err

FailedLookups == { "exact-failed", "pattern-failed" }

\* C20: in an answered request, an indicator whose catalog lookup failed is
\* in the enriched list with in_database = false, and indicators_enriched is
\* the number of indicators of the alert.
C20_FailedLookupStillListed ==
    Answered =>
        /\ hresp.indicators_enriched = Len(hbody.indicators)
        /\ Len(henriched) = Len(hbody.indicators)
        /\ \A i \in 1..Len(hlookups) :
              hlookups[i] \in FailedLookups =>
                 /\ henriched[i].Value = hbody.indicators[i]
                 /\ ~henriched[i].InDatabase

\* C22: with RequireThreatIntelForCritical on, every result Triage returns
\* with severity critical comes from an alert that has at least one enriched
\* indicator with in_database = true.
C22_CriticalHasIntel ==
    (Returned /\ tres.result.Severity = "critical") =>
        \E i \in 1..Len(threat) : threat[i].InDatabase

\* The LLM's critical verdict on an alert with an indicator in the catalog
\* passed the post-filter.
C22_Witness ==
    /\ Returned
    /\ llmCalled
    /\ RequireThreatIntelForCritical
    /\ tres.result.Severity = "critical"
    /\ iocsInDB(threat) > 0

Applied == gpc = "done"

\* C28: for any parsed result and any list of enriched indicators, what the
\* post-filter returns has a severity of the enum, a confidence in 0..100 and
\* a priority in 1..5.
C28_PostFilterOutputInRange ==
    Applied =>
        /\ gstages[8].Severity \in ValidSeverities
        /\ gstages[8].Confidence \in 0..100
        /\ gstages[8].Priority \in 1..5

\* Guardrail 2 changed the result: severity was info or low and an indicator
\* in the catalog has a high-risk threat type.
UpgradeFired == Applied /\ hasHighRiskTypes(gth) /\ gstages[2].Severity \in { "info", "low" }

\* C29: when the severity-upgrade rule fires the result is high, priority 2,
\* no false positive, with confidence min(c + 10, 85), c the confidence before
\* the rule.
C29_UpgradeCapsConfidence ==
    UpgradeFired =>
        /\ gstages[3].Severity = "high"
        /\ gstages[3].Priority = 2
        /\ ~gstages[3].FalsePositive
        /\ gstages[3].Confidence = Min(gstages[2].Confidence + 10, 85)

\* Guardrail 1 changed the result: a false positive with an indicator in the
\* catalog.
OverrideFired == Applied /\ gstages[1].FalsePositive /\ iocsInDB(gth) > 0

\* C30 as stated: when the result is a false positive and an indicator is in
\* the catalog, the post-filter returns false_positive false, confidence
\* max(c - 20, 50), and medium with priority 3 for a severity of info or low.
C30_OverrideSetsReturnedConfidence ==
    OverrideFired =>
        LET c == gstages[1].Confidence
            lowish == gstages[1].Severity \in { "info", "low" }
            out == gstages[8]
        IN
        /\ ~out.FalsePositive
        /\ out.Confidence = Max(c - 20, 50)
        /\ lowish => (out.Severity = "medium" /\ out.Priority = 3)

\* C30: when the result is a false positive and an indicator is in the
\* catalog, the override clears false_positive, sets the confidence to
\* max(c - 20, 50), c the normalized confidence of the result, and raises info
\* or low to medium with priority 3.  What the post-filter returns is no false
\* positive, medium with priority 3 if the severity was info or low, and has
\* that confidence when the indicators name fewer than three distinct
\* sources, and 15 more, at most 98, when they name three or more.
C30_FalsePositiveOverride ==
    OverrideFired =>
        LET c == gstages[1].Confidence
            lowish == gstages[1].Severity \in { "info", "low" }
            out == gstages[8]
        IN
        /\ ~gstages[2].FalsePositive
        /\ gstages[2].Confidence = Max(c - 20, 50)
        /\ lowish => (gstages[2].Severity = "medium" /\ gstages[2].Priority = 3)
        /\ ~lowish => (gstages[2].Severity = gstages[1].Severity
                       /\ gstages[2].Priority = gstages[1].Priority)
        /\ ~out.FalsePositive
        /\ lowish => (out.Severity = "medium" /\ out.Priority = 3)
        /\ out.Confidence = IF Cardinality(uniqueSources(gth)) >= 3
                            THEN Min(Max(c - 20, 50) + 15, 98)
                            ELSE Max(c - 20, 50)

\* The example of the claim: low, false positive, confidence 70, exactly one
\* indicator in the catalog.
C30_Witness ==
    /\ OverrideFired
    /\ gstages[1].Severity = "low"
    /\ gstages[1].Confidence = 70
    /\ iocsInDB(gth) = 1
    /\ gstages[8].Severity = "medium"
    /\ gstages[8].Confidence = 50
    /\ gstages[8].Priority = 3
    /\ ~gstages[8].FalsePositive

\* C21: the check endpoint answers exists:false only when the catalog holds
\* no row with the given value, and answers a storage failure with an error
\* (5xx), not with exists:false.
C21_NotFoundOnlyWhenAbsent ==
    kpc = "done" =>
        /\ kresp.exists = "false" => (kfind = "no-rows" /\ ~HasValue(catalog, kvalue))
        /\ kfind = "failure" => (kresp.exists = "none" /\ kresp.status \in { "500", "error" })

SearchAnswered == qpc = "done" /\ qresp.status \in { "200", "OK" }

Ats(value) == { i \in 1..Len(value) : value[i] = "@" }

RowsOf(rows) == { rows[i] : i \in 1..Len(rows) }

\* The answer holds exactly the rows of the set, each once, and counts them.
AnswerIs(rowSet) ==
    /\ RowsOf(qresp.iocs) = rowSet
    /\ Len(qresp.iocs) = Cardinality(rowSet)
    /\ qresp.count = Cardinality(rowSet)

\* C23: a search for p@v, v not empty and free of '@' (the split is at the
\* last '@'), p not empty, answers exactly the catalog rows with value p and
\* version v or "", and counts them; a value without '@', or whose only '@'
\* is its first character, is searched as it is across all versions.
C23_SearchByVersion ==
    SearchAnswered =>
        /\ \A k \in 2..(Len(qvalue) - 1) :
              (qvalue[k] = "@" /\ \A j \in Ats(qvalue) : j <= k) =>
                 LET p == SubSeq(qvalue, 1, k - 1)
                     v == SubSeq(qvalue, k + 1, Len(qvalue))
                 IN AnswerIs({ r \in RowsOf(catalog) :
                                 r.value = p /\ r.version \in { v, << >> } })
        /\ Ats(qvalue) \subseteq { 1 } =>
              AnswerIs({ r \in RowsOf(catalog) : r.value = qvalue })

\* The search for @o@4 over a catalog with @o in versions 4 and 5 and a row
\* whose value is the whole of @o@4: the row of version 4 alone is answered.
C23_Witness ==
    /\ SearchAnswered
    /\ qvalue = << "@", "o", "@", "4" >>
    /\ catalog = SearchRows
    /\ qresp.count = 1
    /\ qresp.iocs[1].version = << "4" >>

\* C24: with a secret configured, no handler other than the health check
\* runs for a request whose Authorization header is not exactly
\* "Bearer <secret>", and such a request to a route gets 401; with no secret
\* configured every request to a route reaches its handler.
C24_NoHandlerWithoutToken ==
    apc = "done" =>
        /\ (asecret # "" /\ areq.auth # "Bearer " \o asecret) =>
              /\ aran \in { "none", "Health" }
              /\ (Matched(areq) # { } /\ areq.path # "/api/v1/health") => astatus = 401
        /\ (asecret = "" /\ Matched(areq) # { }) =>
              (aran # "none" /\ \E r \in Matched(areq) : aran = r.handler)

\* A webhook request with the secret in the wrong case was refused.
C24_Witness ==
    /\ apc = "done"
    /\ asecret = "s3cret"
    /\ areq.path = "/api/v1/webhooks/sentinelone"
    /\ areq.method = "POST"
    /\ areq.auth = "bearer s3cret"
    /\ aran = "none"
    /\ astatus = 401

\* C25: after ingestion, for every persisted url IOC whose host is an IP
\* literal the catalog holds an ip IOC with value = host and the same source,
\* threat type and first_seen, and for every one whose host is not an IP
\* literal it holds such a domain IOC, whichever provider supplied the URL.
C25_UrlHostPersisted ==
    xpc = "done" =>
        \A i \in 1..Len(catalog) :
            catalog[i].type = "url" =>
                \E j \in 1..Len(catalog) :
                    /\ catalog[j].value = UrlValue("", catalog[i].value.host, "")
                    /\ catalog[j].type = (IF ParseIP(catalog[i].value.host) THEN "ip" ELSE "domain")
                    /\ catalog[j].source = catalog[i].source
                    /\ catalog[j].threat_type = catalog[i].threat_type
                    /\ catalog[j].first_seen = catalog[i].first_seen

\* C26: every CEF line written for a row reads back, by reversing the
\* escape rule, to exactly that row's value, type, threat type, sources,
\* tags and first_seen, whatever the fields hold.
C26_CefRoundTrip ==
    epc = "done" => decodeCEF(eline) = SourceFields(eentry)

\* C27: an enriched indicator that is in the database carries the earliest
\* first_seen of the catalog rows matched for it.
C27_EarliestFirstSeen ==
    \A i \in 1..Len(henriched) :
        henriched[i].InDatabase =>
            /\ \E k \in 1..Len(hiocs[i]) : hseen[i] = hiocs[i][k].FirstSeen
            /\ \A k \in 1..Len(hiocs[i]) : hseen[i] <= hiocs[i][k].FirstSeen

\* The confidence the LLM reported, as parseResponse read it.
Reported == gparsed.Confidence

Boosts == iocsInDB(gth) > 0 /\ Cardinality(uniqueSources(gth)) >= 3

C32_MisclassificationCorrected ==
    ( /\ Applied
      /\ gparsed.Severity = "low" /\ gparsed.FalsePositive /\ gparsed.Confidence = 70
      /\ gth = << IOCContext("198.51.100.200", TRUE, << "otx", "digitalside" >>,
                             << "c2_server", "ransomware" >>) >> )
    => /\ gstages[8].Severity = "high"
       /\ ~gstages[8].FalsePositive
       /\ gstages[8].Confidence = 80

\* C33: when no enriched indicator is in the catalog, the severity the
\* post-filter returns is never above MaxSeverityWithoutThreatIntel, whatever
\* severity and confidence the LLM reported.
C33_SeverityCappedWithoutIntel ==
    (Applied /\ iocsInDB(gth) = 0) =>
        severityToPriority(gstages[8].Severity)
            >= severityToPriority(MaxSeverityWithoutThreatIntel)

ManySources == Applied /\ Cardinality(uniqueSources(gth)) >= 3

\* C34 as stated: when the enriched indicators carry at least 3 distinct
\* sources, the confidence the post-filter returns is strictly higher than the
\* confidence the LLM reported.
C34_BoostRaisesConfidence ==
    ManySources => gstages[8].Confidence > Reported

\* C34: when the enriched indicators carry at least 3 distinct sources, the
\* boost adds 15 to the confidence the earlier rules left, up to 98, and that
\* is the confidence returned; it is strictly higher than the reported
\* confidence exactly when that is below 98, or below 65 when the
\* false-positive override fired too.
C34_BoostAdds15UpTo98 ==
    ManySources =>
        /\ gstages[5].Confidence = Min(gstages[4].Confidence + 15, 98)
        /\ gstages[8].Confidence = gstages[5].Confidence
        /\ (gstages[8].Confidence > Reported)
              <=> (IF OverrideFired THEN Reported < 65 ELSE Reported < 98)

C34_Witness ==
    /\ ManySources
    /\ ~OverrideFired
    /\ Reported = 70
    /\ gstages[8].Confidence = 85

\* C39: every result triage returns with false_positive = true has a
\* confidence of at least 80, so the webhook never calls the notifier for an
\* alert that triage classified as a false positive.
C39_FalsePositiveNeverNotified ==
    /\ (Triaged /\ htriage.result.FalsePositive)
          => htriage.result.Confidence >= SkipNotificationConfidence
    /\ \A i \in 1..Len(hnotify) :
          hnotify[i].withTriage => ~hnotify[i].triage.FalsePositive

C39_Witness ==
    /\ hpc = "done"
    /\ Triaged
    /\ htriage.result.FalsePositive
    /\ htriage.result.Confidence = 85
    /\ hresp.false_positive
    /\ ~hresp.slack_notification

\* C40: inside triage the severity-upgrade rule of the post-filter never
\* fires: whenever the LLM was called, and so whenever the post-filter runs,
\* no indicator in the catalog carries a high-risk threat type, and the rule
\* leaves a result of severity info or low as it is.
C40_UpgradeUnreachableInTriage ==
    (tpc = "returned" /\ llmCalled) =>
        /\ ~hasHighRiskTypes(threat)
        /\ \A sev \in { "info", "low" }, fp \in BOOLEAN :
              LET r == TriageResult(sev, 4, 70, fp, << >>, FALSE)
              IN Guardrail2(r, threat) = r

C40_Witness ==
    /\ tpc = "returned"
    /\ llmCalled
    /\ tres.err = "none"
    /\ iocsInDB(threat) > 0
    /\ tres.result.Severity = "low"

\* C35: a SaveBatch call in progress when the deadline fires or the context
\* is cancelled runs to completion and its batch is persisted: it is not
\* ended by the cancellation.
C35_InFlightSaveCompletes ==
    (ipc = "returned" /\ ifired = "during") =>
        /\ iret # "context canceled"
        /\ iret = "ok" => \A i \in 1..Len(ibatch) : KeyIn(catalog, ibatch[i])

\* Items the producers have sent on the channel, and items the consumer has
\* taken from it.
SentItems == Flatten([p \in Providers |-> SubSeq(fetched[p], 1, sidx[p] - 1)])

TakenCount == Len(Flatten(saveCalls)) + (IF mpc = "exit" THEN 0 ELSE Len(batch))

C36_ClosedAfterProducers ==
    /\ closed => \A p \in Providers : ppc[p] = "done"
    /\ mpc \in { "final", "exit" } =>
          /\ closed
          /\ iocChannel = << >>
          /\ TakenCount = Len(SentItems)

\* C36: the channel is closed once, and only after every producer has
\* returned, so no producer sends on a closed channel; the consumer sees the
\* close only after it has received every item that was sent.
C36_ClosedOnceAfterProducers ==
    /\ [](C36_ClosedAfterProducers)
    /\ [][(closed => closed') /\ (\A p \in Providers : SendItem(p) => ~closed)]_vars

C36_Witness ==
    /\ mpc = "final"
    /\ closed
    /\ \A p \in Providers : sidx[p] > 1
    /\ Len(batch) > 0
    /\ TakenCount = Len(SentItems)

\* C37: the consumer's buffer never holds more than BatchSize items, and
\* every SaveBatch call of the coordinator carries between 1 and BatchSize
\* items, never an empty batch.
C37_BatchSizeBounds ==
    /\ Len(batch) <= BatchSize
    /\ \A i \in 1..Len(saveCalls) : Len(saveCalls[i]) \in 1..BatchSize

C37_Witness ==
    /\ \E i \in 1..Len(saveCalls) : Len(saveCalls[i]) = BatchSize
    /\ \E i \in 1..Len(saveCalls) : Len(saveCalls[i]) = 1

\* A tick taken with items in the buffer hands the whole buffer to SaveBatch
\* and empties it.
C38_TickStep ==
    (Tick /\ Len(batch) > 0) => (saveCalls' = Append(saveCalls, batch) /\ batch' = << >>)

\* C38: an item the consumer has buffered is submitted to SaveBatch no later
\* than the next tick, even if no further item arrives and the channel stays
\* open: the tick taken with a non-empty buffer submits all of it, and a
\* non-empty buffer is always emptied by a flush (or submitted by the flush
\* after the loop).
C38_BufferedItemFlushedAtTick ==
    /\ [][C38_TickStep]_vars
    /\ (mpc = "loop" /\ Len(batch) > 0) ~> (batch = << >> \/ mpc = "exit")

\* A tick has flushed a single buffered item while the channel was open and
\* empty, a producer still fetching.
C38_Witness ==
    /\ mpc = "loop"
    /\ ~closed
    /\ iocChannel = << >>
    /\ batch = << >>
    /\ saveCalls = << << Feed(1)[1] >> >>
    /\ ppc[2] = "fetch"

=============================================================================
